---- MODULE Spec2Model ----
(***************************************************************************)
(* Download & extraction orchestration engine of yt_playlist_dnlder.       *)
(*                                                                         *)
(* Texts (error messages, titles, file names, item ids) are sequences of   *)
(* one-character strings, so that the substring tests of the source can    *)
(* be computed.                                                            *)
(***************************************************************************)
EXTENDS Integers, Sequences, FiniteSets, TLC

----------------------------------------------------------------------------
(* Text helpers: str.lower(), the `in` substring test, concatenation.      *)

UpperChars == <<"A","B","C","D","E","F","G","H","I","J","K","L","M",
                "N","O","P","Q","R","S","T","U","V","W","X","Y","Z">>

LowerChars == <<"a","b","c","d","e","f","g","h","i","j","k","l","m",
                "n","o","p","q","r","s","t","u","v","w","x","y","z">>

LowerChar(c) ==
    IF \E i \in 1..Len(UpperChars) : UpperChars[i] = c
    THEN LowerChars[CHOOSE i \in 1..Len(UpperChars) : UpperChars[i] = c]
    ELSE c

ToLower(s) == [i \in 1..Len(s) |-> LowerChar(s[i])]

\* Python `pat in s` for strings
Contains(s, pat) ==
    \E k \in 0..(Len(s) - Len(pat)) :
        \A i \in 1..Len(pat) : s[k + i] = pat[i]

\* Python str.endswith
EndsWith(s, suf) ==
    /\ Len(s) >= Len(suf)
    /\ \A i \in 1..Len(suf) : s[Len(s) - Len(suf) + i] = suf[i]

SeqToSet(s) == {s[i] : i \in 1..Len(s)}

----------------------------------------------------------------------------
(* Failure classifier                                                      *)

\* _is_permanent_error: permanent_patterns
permanent_patterns ==
    << <<"v", "i", "d", "e", "o", " ", "u", "n", "a", "v", "a", "i", "l", "a", "b", "l", "e">>,
       <<"p", "r", "i", "v", "a", "t", "e", " ", "v", "i", "d", "e", "o">>,
       <<"d", "e", "l", "e", "t", "e", "d", " ", "v", "i", "d", "e", "o">>,
       <<"h", "a", "s", " ", "b", "e", "e", "n", " ", "r", "e", "m", "o", "v", "e", "d">>,
       <<"c", "o", "p", "y", "r", "i", "g", "h", "t">>,
       <<"n", "o", "t", " ", "a", "v", "a", "i", "l", "a", "b", "l", "e">>,
       <<"t", "h", "i", "s", " ", "v", "i", "d", "e", "o", " ", "i", "s", " ", "n", "o", "t", " ", "a", "v", "a", "i", "l", "a", "b", "l", "e">>,
       <<"t", "h", "i", "s", " ", "v", "i", "d", "e", "o", " ", "h", "a", "s", " ", "b", "e", "e", "n", " ", "r", "e", "m", "o", "v", "e", "d">>,
       <<"a", "c", "c", "o", "u", "n", "t", " ", "a", "s", "s", "o", "c", "i", "a", "t", "e", "d", " ", "w", "i", "t", "h", " ", "t", "h", "i", "s", " ", "v", "i", "d", "e", "o", " ", "h", "a", "s", " ", "b", "e", "e", "n", " ", "t", "e", "r", "m", "i", "n", "a", "t", "e", "d">>,
       <<"v", "i", "d", "e", "o", " ", "i", "s", " ", "n", "o", " ", "l", "o", "n", "g", "e", "r", " ", "a", "v", "a", "i", "l", "a", "b", "l", "e">>,
       <<"m", "e", "m", "b", "e", "r", "s", "-", "o", "n", "l", "y", " ", "c", "o", "n", "t", "e", "n", "t">>,
       <<"j", "o", "i", "n", " ", "t", "h", "i", "s", " ", "c", "h", "a", "n", "n", "e", "l">>,
       <<"a", "g", "e", "-", "r", "e", "s", "t", "r", "i", "c", "t", "e", "d">> >>

\* _is_permanent_error: transient_patterns
transient_patterns ==
    << <<"n", "o", " ", "s", "u", "c", "h", " ", "f", "i", "l", "e", " ", "o", "r", " ", "d", "i", "r", "e", "c", "t", "o", "r", "y">>,
       <<"e", "r", "r", "n", "o", " ", "2">>,
       <<"c", "o", "n", "n", "e", "c", "t", "i", "o", "n", " ", "r", "e", "s", "e", "t">>,
       <<"c", "o", "n", "n", "e", "c", "t", "i", "o", "n", " ", "r", "e", "f", "u", "s", "e", "d">>,
       <<"t", "i", "m", "e", "o", "u", "t">>,
       <<"n", "e", "t", "w", "o", "r", "k">>,
       <<"t", "e", "m", "p", "o", "r", "a", "r", "y", " ", "f", "a", "i", "l", "u", "r", "e">>,
       <<"u", "n", "a", "b", "l", "e", " ", "t", "o", " ", "d", "o", "w", "n", "l", "o", "a", "d">>,
       <<"h", "t", "t", "p", " ", "e", "r", "r", "o", "r", " ", "5">>,
       <<"h", "t", "t", "p", " ", "e", "r", "r", "o", "r", " ", "4", "2", "9">>,
       <<"f", "r", "a", "g", "m", "e", "n", "t">>,
       <<"p", "a", "r", "t", "-", "f", "r", "a", "g">>,
       <<".", "p", "a", "r", "t">> >>

\* fault: the permanent patterns are looked at first
PermanentFirst(error_message) ==
    LET error_lower == ToLower(error_message)
    IN  IF \E i \in 1..Len(permanent_patterns) :
               Contains(error_lower, permanent_patterns[i])
        THEN TRUE
        ELSE FALSE

\* TRUE = permanent (exclude), FALSE = transient (retry).  The transient
\* patterns are looked at first; a text matching nothing is transient.
_is_permanent_error(error_message) ==
    LET error_lower == ToLower(error_message)
    IN  IF \E i \in 1..Len(transient_patterns) :
               Contains(error_lower, transient_patterns[i])
        THEN FALSE
        ELSE IF \E i \in 1..Len(permanent_patterns) :
                    Contains(error_lower, permanent_patterns[i])
             THEN TRUE
             ELSE FALSE

Classify(error_message) ==
    IF _is_permanent_error(error_message) THEN "Permanent" ELSE "Transient"

\* Error texts the classifier is applied to
TextEmpty == << >>
TextRateLimit == <<"H", "T", "T", "P", " ", "E", "r", "r", "o", "r", " ", "4", "2", "9", ":", " ", "T", "o", "o", " ", "M", "a", "n", "y", " ", "R", "e", "q", "u", "e", "s", "t", "s">>
TextPrivate == <<"T", "h", "i", "s", " ", "v", "i", "d", "e", "o", " ", "i", "s", " ", "p", "r", "i", "v", "a", "t", "e">>
TextUnavailable == <<"V", "i", "d", "e", "o", " ", "u", "n", "a", "v", "a", "i", "l", "a", "b", "l", "e">>
TextPrivateVideo == <<"P", "r", "i", "v", "a", "t", "e", " ", "v", "i", "d", "e", "o", ".", " ", "S", "i", "g", "n", " ", "i", "n">>
TextBoom == <<"b", "o", "o", "m", " ">>
TextCopyrightUpper == <<"C", "O", "P", "Y", "R", "I", "G", "H", "T", " ", "c", "l", "a", "i", "m">>
TextDotPart == <<" ", "f", "i", "l", "e", ".", "m", "p", "4", ".", "p", "a", "r", "t">>
TextTimeout == <<"R", "e", "a", "d", " ", "T", "i", "m", "e", "o", "u", "t">>
TextServerError == <<"H", "T", "T", "P", " ", "E", "r", "r", "o", "r", " ", "5", "0", "3">>

Fragments ==
    { TextEmpty, TextRateLimit, TextPrivate, TextUnavailable, TextPrivateVideo,
      TextBoom, TextCopyrightUpper, TextDotPart, TextTimeout, TextServerError }

ClassifierTexts == { f \o g : f \in Fragments, g \in Fragments }

----------------------------------------------------------------------------
(* The collection: item ids, playlist entries, file names                  *)

IdA == <<"Q", "1">>
IdB == <<"Q", "2">>
IdC == <<"Q", "3">>
IdP == <<"Q", "9">>

TitlePlain == <<"t">>
TitlePrivate == <<"[", "P", "r", "i", "v", "a", "t", "e", " ", "v", "i", "d", "e", "o", "]">>
NoText == << >>

\* One record of the enumeration (extract_flat entry)
Entry(id, title, availability) ==
    [id |-> id, title |-> title, description |-> NoText, error |-> NoText,
     availability |-> availability]

\* The remote playlist, in enumeration order
Catalogue ==
    << Entry(IdA, TitlePlain, NoText),
       Entry(IdP, TitlePrivate, NoText),
       Entry(IdB, TitlePlain, NoText),
       Entry(IdC, TitlePlain, NoText) >>

Ids == {Catalogue[i].id : i \in 1..Len(Catalogue)}

\* video_exts of _get_video_file_path
video_exts ==
    << <<".", "m", "p", "4">>,
       <<".", "m", "k", "v">>,
       <<".", "w", "e", "b", "m">>,
       <<".", "m", "4", "v">> >>

ExtMp4 == video_exts[1]
ExtPart == <<".", "p", "a", "r", "t">>

\* outtmpl "%(title)s [%(id)s].%(ext)s" with merge_output_format mp4
StdName(id) == TitlePlain \o <<" ", "[">> \o id \o <<"]">> \o ExtMp4

\* a file left by yt-dlp for an unfinished download
PartName(id) == StdName(id) \o ExtPart

\* a file of another naming scheme that holds the id in lower case
LegacyName(id) == TitlePlain \o <<"-">> \o ToLower(id) \o ExtMp4

FileUniverse ==
    {StdName(i) : i \in Ids} \cup {PartName(i) : i \in Ids}
        \cup {LegacyName(i) : i \in Ids}

NoPath == << >>

IsVideoFile(filename) ==
    \E k \in 1..Len(video_exts) : EndsWith(ToLower(filename), video_exts[k])

----------------------------------------------------------------------------
(* Archive store                                                           *)

\* fault: no line of archive.txt is recognised
ArchiveReadEmpty(archive_file) == {}

\* archive.txt is held as the sequence of ids of its "youtube <id>" lines
_load_custom_archive(archive_file) == SeqToSet(archive_file)

\* fault: the append to archive.txt is lost
ArchiveAppendLost(archive_file, video_id) == archive_file

_add_to_custom_archive(archive_file, video_id) == Append(archive_file, video_id)

\* files of the folder whose name holds "[id]" or "_id."
VideoFileMatches(folder, video_id) ==
    {f \in folder :
        /\ IsVideoFile(f)
        /\ \/ Contains(f, <<"[">> \o video_id \o <<"]">>)
           \/ Contains(f, <<"_">> \o video_id \o <<".">>)}

_get_video_file_path(folder, video_id) ==
    IF VideoFileMatches(folder, video_id) = {}
    THEN NoPath
    ELSE CHOOSE f \in VideoFileMatches(folder, video_id) : TRUE

\* fault: the archive alone decides, the folder is not looked at
ArchiveOnlyDecision(archive_file, folder, video_id) ==
    video_id \notin _load_custom_archive(archive_file)

\* ENABLE_OLD_FORMAT_AUTO_RENAME is False: only the id is searched for
_should_download_video(archive_file, folder, video_id) ==
    IF video_id \notin _load_custom_archive(archive_file)
    THEN TRUE
    ELSE IF _get_video_file_path(folder, video_id) = NoPath
         THEN TRUE
         ELSE FALSE

\* "alternative search" of the download loop: any video file whose name
\* holds the id, compared in lower case
AlternativeMatches(folder, vid) ==
    {f \in folder : IsVideoFile(f) /\ Contains(ToLower(f), ToLower(vid))}

AlternativeSearch(folder, vid) ==
    IF AlternativeMatches(folder, vid) = {}
    THEN NoPath
    ELSE CHOOSE f \in AlternativeMatches(folder, vid) : TRUE

\* glob "*.part" files whose path holds the id
MatchingPart(folder, vid) ==
    {f \in folder : EndsWith(f, ExtPart) /\ Contains(f, vid)}

----------------------------------------------------------------------------
(* Unavailable-entry heuristic                                             *)

\* is_entry_unavailable: patterns
unavailable_patterns ==
    << <<"p", "r", "i", "v", "a", "t", "e", " ", "v", "i", "d", "e", "o">>,
       <<"d", "e", "l", "e", "t", "e", "d", " ", "v", "i", "d", "e", "o">>,
       <<"v", "i", "d", "e", "o", " ", "u", "n", "a", "v", "a", "i", "l", "a", "b", "l", "e">>,
       <<"t", "h", "i", "s", " ", "v", "i", "d", "e", "o", " ", "i", "s", " ", "n", "o", "t", " ", "a", "v", "a", "i", "l", "a", "b", "l", "e">>,
       <<"h", "a", "s", " ", "b", "e", "e", "n", " ", "r", "e", "m", "o", "v", "e", "d", " ", "b", "y", " ", "t", "h", "e", " ", "u", "p", "l", "o", "a", "d", "e", "r">>,
       <<"n", "o", " ", "l", "o", "n", "g", "e", "r", " ", "a", "v", "a", "i", "l", "a", "b", "l", "e", " ", "d", "u", "e", " ", "t", "o", " ", "a", " ", "c", "o", "p", "y", "r", "i", "g", "h", "t", " ", "c", "l", "a", "i", "m">>,
       <<"t", "h", "i", "s", " ", "c", "o", "n", "t", "e", "n", "t", " ", "i", "s", "n">> >>

TextPublic == <<"p", "u", "b", "l", "i", "c">>

\* is_entry_unavailable without the title/description/availability checks
UnavailableByIdOnly(e, excluded_ids, failed_ids) ==
    \/ e.id \in excluded_ids
    \/ e.id \in failed_ids

is_entry_unavailable(e, excluded_ids, failed_ids) ==
    LET text == ToLower(e.title) \o <<" ">> \o ToLower(e.description)
                    \o <<" ">> \o ToLower(e.error)
        availability == ToLower(e.availability)
    IN  \/ e.id \in excluded_ids
        \/ e.id \in failed_ids
        \/ \E i \in 1..Len(unavailable_patterns) :
               Contains(text, unavailable_patterns[i])
        \/ availability # NoText /\ availability # TextPublic

----------------------------------------------------------------------------
(* Batch progress file (batch_progress.json)                               *)

BatchSize == 2

\* what _load_batch_progress returns when the file does not exist
NoProgressFile ==
    [exists |-> FALSE, total_videos |-> 0, downloaded_count |-> 0,
     pending_video_ids |-> << >>, completed |-> FALSE]

_load_batch_progress(progress_file) ==
    IF progress_file.exists THEN progress_file ELSE NoProgressFile

_save_batch_progress(progress) == [progress EXCEPT !.exists = TRUE]

\* fault: the completed progress file is left under its name
ProgressFileLeft(progress_file) == progress_file

_archive_completed_batch_progress(progress_file) == NoProgressFile

\* os.rename(progress_file, archived_path): the renamed files of the folder
RenamedFiles(archived, progress_file) ==
    IF progress_file.exists THEN Append(archived, progress_file) ELSE archived

_initialize_batch_progress(video_ids) ==
    _save_batch_progress(
        [exists |-> TRUE, total_videos |-> Len(video_ids),
         downloaded_count |-> 0, pending_video_ids |-> video_ids,
         completed |-> FALSE])

Without(seq, ids) ==
    LET Keep(v) == v \notin ids IN SelectSeq(seq, Keep)

\* list.remove: drops the first occurrence
RemoveFirst(seq, x) ==
    LET i == CHOOSE k \in 1..Len(seq) :
                 seq[k] = x /\ \A j \in 1..(k - 1) : seq[j] # x
    IN  SubSeq(seq, 1, i - 1) \o SubSeq(seq, i + 1, Len(seq))

_update_batch_progress(progress_file, downloaded_ids) ==
    LET progress == _load_batch_progress(progress_file)
        pending == Without(progress.pending_video_ids, downloaded_ids)
    IN  _save_batch_progress(
            [progress EXCEPT !.pending_video_ids = pending,
                             !.downloaded_count = progress.total_videos - Len(pending),
                             !.completed = (Len(pending) = 0)])

\* fault: the per-item removal is not written to the progress file
RemovalNotPersisted(progress_file, video_id) == progress_file

_remove_from_batch_progress(progress_file, video_id) ==
    LET progress == _load_batch_progress(progress_file)
        pending == RemoveFirst(progress.pending_video_ids, video_id)
    IN  IF video_id \in SeqToSet(progress.pending_video_ids)
        THEN _save_batch_progress(
                 [progress EXCEPT !.pending_video_ids = pending,
                                  !.downloaded_count = progress.total_videos - Len(pending),
                                  !.completed = (Len(pending) = 0)])
        ELSE progress_file

\* fault: the merge forgets to raise total_videos
MergeKeepsTotal(batch_progress, order) ==
    [batch_progress EXCEPT
        !.pending_video_ids = batch_progress.pending_video_ids \o order]

\* fault: the merge writes the new ids over the old pending list
MergeReplacesPending(batch_progress, order) ==
    [batch_progress EXCEPT !.pending_video_ids = order,
                           !.total_videos = batch_progress.total_videos + Len(order)]

\* resume mode: the new ids are appended in the iteration order of a set
MergeNewVideos(batch_progress, order) ==
    [batch_progress EXCEPT
        !.pending_video_ids = batch_progress.pending_video_ids \o order,
        !.total_videos = batch_progress.total_videos + Len(order)]

Orderings(S) ==
    {s \in [1..Cardinality(S) -> S] : \A x \in S : \E i \in 1..Cardinality(S) : s[i] = x}

\* fault: the slice is not applied
TakeAll(seq, n) == seq

\* videos_to_download[:batch_size]
Take(seq, n) == SubSeq(seq, 1, IF Len(seq) < n THEN Len(seq) ELSE n)

----------------------------------------------------------------------------
(* Exclusion on failure                                                    *)

\* fault: the playlist's list in the config is written anew with the one id
GuiConfigOverwrites(excluded, has_entry, playlist_url_set, vid, error_message) ==
    IF ~playlist_url_set
    THEN excluded
    ELSE IF error_message # NoText /\ ~_is_permanent_error(error_message)
         THEN excluded
         ELSE IF has_entry THEN {vid} ELSE excluded

\* _add_excluded_id_to_gui_config: the new excluded_ids of the playlist's
\* entry in yt_playlist_gui_config.json.  has_entry: the config lists a
\* playlist with this url.
_add_excluded_id_to_gui_config(excluded, has_entry, playlist_url_set, vid, error_message) ==
    IF ~playlist_url_set
    THEN excluded
    ELSE IF error_message # NoText /\ ~_is_permanent_error(error_message)
         THEN excluded
         ELSE IF has_entry THEN excluded \cup {vid} ELSE excluded

\* fault: every failed fetch is recorded as failed
FailedAlways(failed, vid, error_message) == failed \cup {vid}

\* FAILED_VIDEO_IDS after a failed fetch (exception handler and progress hook)
FailedAfterError(failed, vid, error_message) ==
    IF _is_permanent_error(error_message) THEN failed \cup {vid} ELSE failed

\* JobManager._run_job: playlist.excluded_ids after a download
MergeFailedIds(existing, failed_ids) ==
    IF failed_ids # {} THEN existing \cup failed_ids ELSE existing

----------------------------------------------------------------------------
(* The external fetch (YoutubeDL.download of one item)                     *)

\* error texts str(e) of a failed fetch
ErrorTexts == {TextEmpty, TextRateLimit, TextPrivate, TextUnavailable}

\* wrote: what the tool left in the folder; raised: download() raised err;
\* ret: what download() returned; hook: the progress hook was called with
\* status "error" (and the same error) before download() raised
FetchOutcomes ==
    { [wrote |-> "file", raised |-> FALSE, ret |-> 0, err |-> NoText, hook |-> FALSE],
      [wrote |-> "nothing", raised |-> FALSE, ret |-> 0, err |-> NoText, hook |-> FALSE],
      [wrote |-> "nothing", raised |-> FALSE, ret |-> 1, err |-> NoText, hook |-> FALSE],
      [wrote |-> "part", raised |-> FALSE, ret |-> 1, err |-> NoText, hook |-> FALSE] }
    \cup
    { [wrote |-> "nothing", raised |-> TRUE, ret |-> 1, err |-> e, hook |-> h] :
          e \in ErrorTexts, h \in BOOLEAN }

NoResult ==
    [wrote |-> "nothing", raised |-> FALSE, ret |-> 0, err |-> NoText, hook |-> FALSE]

\* the folder after the tool ran for vid
FolderAfterFetch(folder, vid, wrote) ==
    CASE wrote = "file" -> (folder \ {PartName(vid)}) \cup {StdName(vid)}
      [] wrote = "part" -> folder \cup {PartName(vid)}
      [] OTHER -> folder

----------------------------------------------------------------------------
(* State                                                                   *)

MaxRuns == 3
MaxDisturbances == 2

VARIABLES
    \* on disk, surviving the process
    disk,              \* file names in the playlist folder
    archive,           \* archive.txt
    progress,          \* batch_progress.json
    archived_progress, \* the batch_progress_<date>.json files, oldest first
    dbExcluded,        \* Playlist.excluded_ids of the job manager's database
    guiExcluded,       \* excluded_ids of the playlist in yt_playlist_gui_config.json
    guiHasEntry,       \* that config lists the playlist
    \* one invocation of download_playlist_with_video_and_audio
    pc,
    cancelled,         \* GLOBAL_RUNSTATE.cancelled
    urlSet,            \* GLOBAL_CURRENT_PLAYLIST_URL is not None
    excluded_ids,
    entries,
    ei,                \* position of the filtering loop in entries
    FAILED_VIDEO_IDS,
    videos_to_download,
    needs_batching,
    current_batch,
    idx,               \* position of the download loop in current_batch
    successfully_downloaded,
    res,               \* outcome of the fetch that just ended
    as_mp3,            \* the invocation was asked to extract audio
    extracted,         \* extract_audio_for_existing_playlist_folder was called
    \* history
    runs,
    disturbances,      \* failed fetches, crashes and out-of-band changes so far
    fetchLog,          \* ids handed to the external fetch in this invocation
    outcome,           \* how each id's attempt of this invocation ended
    lastWrite,         \* which code wrote batch_progress.json last
    cancelPc,          \* cancellation was requested during a fetch, or between fetches
    dirty,             \* out-of-band change since this invocation started
    prevAllVerified,   \* every item of the batch of the invocation before was verified
    prevGood,
    prevAmbiguous,
    startArchive,      \* ids of archive.txt when this invocation started
    startDone,         \* ids that were archived with their file on disk then
    startConsistent,   \* no file on disk then whose id was pending or not archived
    \* classifier runs
    text,
    verdict

persistentVars == <<disk, archive, progress, archived_progress, dbExcluded, guiExcluded, guiHasEntry>>
runVars == <<pc, cancelled, urlSet, excluded_ids, entries, ei, FAILED_VIDEO_IDS,
             videos_to_download, needs_batching, current_batch, idx,
             successfully_downloaded, res, as_mp3, extracted>>
historyVars == <<runs, disturbances, fetchLog, outcome, lastWrite, cancelPc, dirty,
                 prevAllVerified, prevGood, prevAmbiguous,
                 startArchive, startDone, startConsistent>>
classifierVars == <<text, verdict>>

\* _extract_single_audio
VARIABLES
    AUDIO_EXTRACT_MODE,   \* the configured extraction mode
    vid_path,             \* the video file handed to the call
    vid_size,             \* its size: VidMissing, 0 or more
    audio_folder,         \* entries of the audio folder: name and file/directory
    xpc,                  \* "idle", "ready" (call submitted), "done" (returned)
    result,               \* the returned dict
    transcoderCalls,      \* subprocess runs of ffmpeg made by the call
    returncodes,          \* the exit codes of those runs, in order
    audioBefore,          \* the audio folder when the call started
    extractions           \* calls made so far

extractVars == <<AUDIO_EXTRACT_MODE, vid_path, vid_size, audio_folder, xpc, result,
                 transcoderCalls, returncodes, audioBefore, extractions>>

\* concurrent jobs of JobManager
VARIABLES
    jobPc,                \* per job: "idle", "check", "fetch", "stopped", "finished"
    jobItems,             \* per job: items fetched by its download loop
    current_runstate,     \* per job: DownloadService.current_runstate
    runstate_cancelled,   \* per runstate object: its cancelled attribute
    GLOBAL_RUNSTATE,      \* the module global of yt_playlist_audio_tools
    cancelRequested       \* per job: cancel_job was called for it

jobVars == <<jobPc, jobItems, current_runstate, runstate_cancelled, GLOBAL_RUNSTATE,
             cancelRequested>>

\* extract_audio_for_existing_playlist_folder: the pool and its drain loop
VARIABLES
    video_files,          \* the video files found by the glob, in submit order
    futures,              \* per work item: "pending", "running", "finished", "cancelled"
    futureResults,        \* per work item: what future.result() gives, "none" before
    poolPc,               \* "idle", "drain" (in the with block), "exit", "returned"
    drained,              \* work items the as_completed loop has taken
    completed,            \* the local counter
    failed,               \* the local counter
    EXTRACTED_AUDIO,      \* work items recorded as newly extracted
    SKIPPED_AUDIO_EXISTING, \* work items recorded as skipped
    progressCalls,        \* the (total, completed) pairs given to the callback
    callbackInstalled,    \* GLOBAL_EXTRACT_PROGRESS_CALLBACK or GLOBAL_PROGRESS_CALLBACK
    observed,             \* the drain loop saw the flag and shut the pool down
    cancelsAtStart        \* the jobs whose cancellation was requested before this run

poolVars == <<video_files, futures, futureResults, poolPc, drained, completed, failed,
              EXTRACTED_AUDIO, SKIPPED_AUDIO_EXISTING, progressCalls,
              callbackInstalled, observed, cancelsAtStart>>

\* jobs as the API and the database see them
VARIABLES
    jobStatus,            \* per job: Job.status, "none" before the job exists
    jobPlaylist,          \* per job: the playlist it was created for
    jobExcluded,          \* per job: the excluded_ids handed to download_playlist
    jobReturned,          \* per job: the set its engine run returned
    jobDone,              \* per job: its engine run has returned
    playlistExcluded      \* per playlist: Playlist.excluded_ids

serviceVars == <<jobStatus, jobPlaylist, jobExcluded, jobReturned, jobDone,
                 playlistExcluded>>

\* archive.txt as a text file, for one load / append / load
VARIABLES
    archive_exists,       \* os.path.isfile(archive_file)
    archive_text,         \* the characters of archive.txt
    video_id,             \* the id handed to _add_to_custom_archive
    ids_before,           \* what _load_custom_archive returned before the append
    ids_after,            \* what it returned after the append
    apc                   \* "start" -> "loaded" -> "appended" -> "reloaded"

archiveFileVars == <<archive_exists, archive_text, video_id, ids_before, ids_after, apc>>

\* the playlist metadata: the cache of the process and the snapshot on disk
VARIABLES
    PLAYLIST_INFO_CACHE,  \* the info cached in the module for the url, NoInfo if none
    snapshot,             \* playlist_info_snapshot/playlist_info.json
    old_snapshots,        \* the playlist_info_<date>.json files
    today,                \* datetime.now().date()
    remote,               \* the info extract_info would return now
    mpc,                  \* "idle" -> "begun" -> "titled" -> "done" | "failed"
    meta_runs,            \* invocations started
    extract_info_calls,   \* calls of ydl.extract_info made by this invocation
    fetched,              \* the infos those calls returned
    entries_used,         \* the info whose entries this invocation uses
    freshAtStart,         \* a snapshot written today was there when it started
    snapshotAtStart       \* the snapshot that was there when it started

metaVars == <<PLAYLIST_INFO_CACHE, snapshot, old_snapshots, today, remote, mpc, meta_runs,
              extract_info_calls, fetched, entries_used, freshAtStart, snapshotAtStart>>

\* two playlists of the database and the paths the engine builds for them
VARIABLES
    coll_url,             \* per playlist: Playlist.url
    coll_title,           \* per playlist: the title of its info
    coll_safe,            \* per playlist: safe_title, NoText before the paths are built
    coll_folder,          \* per playlist: playlist_folder
    coll_archive,         \* per playlist: archive_file
    coll_progress         \* per playlist: the batch_progress.json of its folder

pathVars == <<coll_url, coll_title, coll_safe, coll_folder, coll_archive, coll_progress>>

\* a job of type "both": the download phase hands videos to the extraction phase
VARIABLES
    ffmpeg_found,         \* tools._find_ffmpeg_windows() returns a path
    audio_present,        \* the videos whose audio/<name>.mp3 exists
    dl_next,              \* the worker thread's position in the batch
    dl_state,             \* the worker thread: "running" | "returned" | "raised"
    reported,             \* the videos GLOBAL_VIDEO_DOWNLOADED_CALLBACK was called with
    loop_ready,           \* what the threads scheduled on the event loop, oldest first
    extraction_queue,     \* self.extraction_queues[job_id]
    queue_state,          \* "absent" | "present" | "deleted"
    put_log,              \* every item put on the queue, in order
    dpc,                  \* download phase: "running" | "completed" | "failed"
    epc,                  \* extraction phase: "start" | "running" | "completed" | "failed"
    download_complete,    \* the flag of the extraction loop
    active_tasks,         \* the extraction tasks submitted and not yet reaped
    finished_tasks,       \* those of them whose thread has returned
    submitted,            \* per video: times it was submitted to the pool
    skipped_existing      \* per video: times it was skipped because its audio exists

handoffVars == <<ffmpeg_found, audio_present, dl_next, dl_state, reported, loop_ready,
                 extraction_queue, queue_state, put_log, dpc, epc, download_complete,
                 active_tasks, finished_tasks, submitted, skipped_existing>>

storeVars == <<archiveFileVars, metaVars, pathVars, handoffVars>>

engineVars == <<persistentVars, runVars, historyVars>>

sideVars == <<classifierVars, extractVars, jobVars, poolVars, serviceVars, storeVars>>

vars == <<persistentVars, runVars, historyVars, sideVars>>

NoOutcome == [i \in Ids |-> "none"]

\* the empty folder of a playlist that was just added, no run yet
EngineInit ==
    /\ disk = {}
    /\ archive = << >>
    /\ progress = NoProgressFile
    /\ archived_progress = << >>
    /\ dbExcluded = {}
    /\ guiExcluded = {}
    /\ guiHasEntry = TRUE
    /\ pc = "idle"
    /\ cancelled = FALSE
    /\ urlSet = FALSE
    /\ excluded_ids = {}
    /\ entries = << >>
    /\ ei = 1
    /\ FAILED_VIDEO_IDS = {}
    /\ videos_to_download = << >>
    /\ needs_batching = FALSE
    /\ current_batch = << >>
    /\ idx = 1
    /\ successfully_downloaded = << >>
    /\ res = NoResult
    /\ as_mp3 = FALSE
    /\ extracted = FALSE
    /\ runs = 0
    /\ disturbances = 0
    /\ fetchLog = << >>
    /\ outcome = NoOutcome
    /\ lastWrite = "none"
    /\ cancelPc = "none"
    /\ dirty = FALSE
    /\ prevAllVerified = FALSE
    /\ prevGood = FALSE
    /\ prevAmbiguous = {}
    /\ startArchive = {}
    /\ startDone = {}
    /\ startConsistent = FALSE

ClassifierIdle ==
    /\ text = NoText
    /\ verdict = "unset"

NoExtractResult == [status |-> "none", audio |-> NoText, fallback |-> FALSE]

ExtractIdle ==
    /\ AUDIO_EXTRACT_MODE = "mp3_best"
    /\ vid_path = NoText
    /\ vid_size = 0
    /\ audio_folder = {}
    /\ xpc = "idle"
    /\ result = NoExtractResult
    /\ transcoderCalls = 0
    /\ returncodes = << >>
    /\ audioBefore = {}
    /\ extractions = 0

Jobs == {1, 2}

\* tools.GLOBAL_RUNSTATE before any download
None == 0

JobsIdle ==
    /\ jobPc = [j \in Jobs |-> "idle"]
    /\ jobItems = [j \in Jobs |-> 0]
    /\ current_runstate = [j \in Jobs |-> None]
    /\ runstate_cancelled = [j \in Jobs |-> FALSE]
    /\ GLOBAL_RUNSTATE = None
    /\ cancelRequested = [j \in Jobs |-> FALSE]

\* no extraction run yet
PoolIdle ==
    /\ video_files = << >>
    /\ futures = << >>
    /\ futureResults = << >>
    /\ poolPc = "idle"
    /\ drained = {}
    /\ completed = 0
    /\ failed = 0
    /\ EXTRACTED_AUDIO = {}
    /\ SKIPPED_AUDIO_EXISTING = {}
    /\ progressCalls = << >>
    /\ callbackInstalled = FALSE
    /\ observed = FALSE
    /\ cancelsAtStart = {}

Playlists == {"A", "B"}

\* no job was created yet
ServiceIdle ==
    /\ jobStatus = [j \in Jobs |-> "none"]
    /\ jobPlaylist = [j \in Jobs |-> "none"]
    /\ jobExcluded = [j \in Jobs |-> {}]
    /\ jobReturned = [j \in Jobs |-> {}]
    /\ jobDone = [j \in Jobs |-> FALSE]
    /\ playlistExcluded = [p \in Playlists |-> {}]

\* no archive text is being read
ArchiveFileIdle ==
    /\ archive_exists = FALSE
    /\ archive_text = << >>
    /\ video_id = << >>
    /\ ids_before = {}
    /\ ids_after = {}
    /\ apc = "idle"

NoInfo == 0

NoSnapshot == [day |-> 0, info |-> NoInfo]

\* a process that has just started, a playlist folder without snapshot
MetaIdle ==
    /\ PLAYLIST_INFO_CACHE = NoInfo
    /\ snapshot = NoSnapshot
    /\ old_snapshots = {}
    /\ today = 1
    /\ remote = 1
    /\ mpc = "idle"
    /\ meta_runs = 0
    /\ extract_info_calls = 0
    /\ fetched = {}
    /\ entries_used = NoInfo
    /\ freshAtStart = FALSE
    /\ snapshotAtStart = NoSnapshot

Colls == {1, 2}

\* no playlist was given to the engine
PathsIdle ==
    /\ coll_url = [c \in Colls |-> NoText]
    /\ coll_title = [c \in Colls |-> NoText]
    /\ coll_safe = [c \in Colls |-> NoText]
    /\ coll_folder = [c \in Colls |-> NoText]
    /\ coll_archive = [c \in Colls |-> NoText]
    /\ coll_progress = [c \in Colls |-> NoText]

HandoffVideos == <<"v1", "v2", "v3">>

\* no job of type "both" was started
HandoffIdle ==
    /\ ffmpeg_found = TRUE
    /\ audio_present = {}
    /\ dl_next = 1
    /\ dl_state = "idle"
    /\ reported = {}
    /\ loop_ready = << >>
    /\ extraction_queue = << >>
    /\ queue_state = "absent"
    /\ put_log = << >>
    /\ dpc = "idle"
    /\ epc = "idle"
    /\ download_complete = FALSE
    /\ active_tasks = {}
    /\ finished_tasks = {}
    /\ submitted = [v \in SeqToSet(HandoffVideos) |-> 0]
    /\ skipped_existing = [v \in SeqToSet(HandoffVideos) |-> 0]

StoreIdle ==
    /\ ArchiveFileIdle
    /\ MetaIdle
    /\ PathsIdle
    /\ HandoffIdle

Init ==
    /\ EngineInit
    /\ ClassifierIdle
    /\ ExtractIdle
    /\ JobsIdle
    /\ PoolIdle
    /\ ServiceIdle
    /\ StoreIdle

----------------------------------------------------------------------------
(* download_playlist_with_video_and_audio, called by JobManager._run_job   *)

\* ids of the entries that are neither excluded nor unavailable
Available(ents, excl) ==
    {ents[k].id : k \in {j \in 1..Len(ents) : ~is_entry_unavailable(ents[j], excl, {})}}

\* the invocation that just returned was not cancelled and every item of its
\* batch ended with the file found by _get_video_file_path
RunAllVerified ==
    /\ ~cancelled
    /\ entries # << >>
    /\ \A i \in 1..Len(current_batch) :
           outcome[current_batch[i]] \in {"verified", "skipped"}

\* the invocation that just returned fetched every candidate it selected, and
\* each fetch ended with the file found by _get_video_file_path or with a
\* permanent failure that the caller merged into the exclusions
RunWasExhaustive ==
    /\ ~cancelled
    /\ entries # << >>
    /\ Len(current_batch) = Len(videos_to_download)
    /\ \A i \in 1..Len(videos_to_download) :
           outcome[videos_to_download[i]] \in {"verified", "skipped", "permanent"}

AlreadyComplete(vid) ==
    /\ vid \in _load_custom_archive(archive)
    /\ _get_video_file_path(disk, vid) # NoPath

\* ids whose file is on disk while the id is still pending in the progress file
\* or is missing from the archive
Inconsistent ==
    {i \in Ids :
        /\ \/ i \notin _load_custom_archive(archive)
           \/ i \in SeqToSet(_load_batch_progress(progress).pending_video_ids)
        /\ _get_video_file_path(disk, i) # NoPath}

\* the start of an invocation: globals reset, playlist enumerated
BeginRun(ents, mp3) ==
    /\ pc = "idle"
    /\ disturbances' = IF ents = << >> THEN disturbances + 1 ELSE disturbances
    /\ ents = << >> => disturbances < MaxDisturbances
    /\ pc' = "filter"
    /\ cancelled' = FALSE
    /\ urlSet' = TRUE
    /\ excluded_ids' = dbExcluded
    /\ entries' = ents
    /\ ei' = 1
    /\ FAILED_VIDEO_IDS' = {}
    /\ videos_to_download' = << >>
    /\ needs_batching' = FALSE
    /\ current_batch' = << >>
    /\ idx' = 1
    /\ successfully_downloaded' = << >>
    /\ res' = NoResult
    /\ fetchLog' = << >>
    /\ outcome' = NoOutcome
    /\ cancelPc' = "none"
    /\ dirty' = FALSE
    /\ startArchive' = _load_custom_archive(archive)
    /\ startDone' = {i \in Ids : AlreadyComplete(i)}
    /\ startConsistent' = (Inconsistent = {})
    /\ as_mp3' = mp3
    /\ extracted' = FALSE
    /\ UNCHANGED <<persistentVars, lastWrite, prevAllVerified, prevGood,
                   prevAmbiguous, sideVars>>

Begin(ents, mp3) ==
    /\ runs < MaxRuns
    /\ runs' = runs + 1
    /\ BeginRun(ents, mp3)

\* the enumeration gives the playlist's entries
StartRun == \E mp3 \in BOOLEAN : Begin(Catalogue, mp3)

\* _get_playlist_entries raised: entries stays []
StartRunNoEntries == \E mp3 \in BOOLEAN : Begin(<< >>, mp3)

\* for e in entries: cancellation seen
FilterCancelled ==
    /\ pc = "filter"
    /\ ei <= Len(entries)
    /\ cancelled
    /\ pc' = "returned"
    /\ urlSet' = FALSE
    /\ UNCHANGED <<persistentVars, cancelled, excluded_ids, entries, as_mp3, extracted, ei,
                   FAILED_VIDEO_IDS, videos_to_download, needs_batching,
                   current_batch, idx, successfully_downloaded, res,
                   historyVars, sideVars>>

\* for e in entries: one entry
FilterEntry ==
    /\ pc = "filter"
    /\ ei <= Len(entries)
    /\ ~cancelled
    /\ LET e == entries[ei]
           vid == e.id
       IN  IF vid \in excluded_ids
           THEN /\ FAILED_VIDEO_IDS' = FAILED_VIDEO_IDS \cup {vid}
                /\ UNCHANGED videos_to_download
           ELSE IF is_entry_unavailable(e, excluded_ids, FAILED_VIDEO_IDS)
           THEN /\ FAILED_VIDEO_IDS' = FAILED_VIDEO_IDS \cup {e.id}
                /\ UNCHANGED videos_to_download
           ELSE IF _should_download_video(archive, disk, vid)
           THEN /\ videos_to_download' = Append(videos_to_download, vid)
                /\ UNCHANGED FAILED_VIDEO_IDS
           ELSE UNCHANGED <<FAILED_VIDEO_IDS, videos_to_download>>
    /\ ei' = ei + 1
    /\ UNCHANGED <<persistentVars, pc, cancelled, urlSet, excluded_ids, entries, as_mp3, extracted,
                   needs_batching, current_batch, idx, successfully_downloaded,
                   res, historyVars, sideVars>>

FilterDone == pc = "filter" /\ ei > Len(entries)

\* "No new videos to download after filtering; all up to date."
PlanNothing ==
    /\ FilterDone
    /\ videos_to_download = << >> /\ entries # << >>
    /\ pc' = "returned"
    /\ urlSet' = FALSE
    /\ UNCHANGED <<persistentVars, cancelled, excluded_ids, entries, as_mp3, extracted, ei,
                   FAILED_VIDEO_IDS, videos_to_download, needs_batching,
                   current_batch, idx, successfully_downloaded, res,
                   historyVars, sideVars>>

HasOngoingBatch(batch_progress) ==
    batch_progress.pending_video_ids # << >> /\ ~batch_progress.completed

\* what the four branches of the batch management have in common
Planned(file, wrote, batch_progress, videos, renamed) ==
    /\ FilterDone
    /\ ~(videos_to_download = << >> /\ entries # << >>)
    /\ progress' = file
    /\ archived_progress' = renamed
    /\ lastWrite' = IF wrote = "none" THEN lastWrite ELSE wrote
    /\ videos_to_download' = videos
    /\ needs_batching' =
           (HasOngoingBatch(_load_batch_progress(progress))
               \/ batch_progress.total_videos > BatchSize)
    /\ current_batch' =
           IF needs_batching' THEN Take(videos, BatchSize) ELSE videos
    /\ pc' = "loop"
    /\ idx' = 1
    /\ UNCHANGED <<disk, archive, dbExcluded, guiExcluded, guiHasEntry, cancelled,
                   urlSet, excluded_ids, entries, as_mp3, extracted, ei, FAILED_VIDEO_IDS,
                   successfully_downloaded, res, runs, disturbances, fetchLog, outcome,
                   cancelPc, dirty, prevAllVerified, prevGood,
                   prevAmbiguous, startArchive, startDone, startConsistent, sideVars>>

\* fault: a resumed run takes its work from the persisted pending list
ResumeFromPendingList ==
    /\ HasOngoingBatch(_load_batch_progress(progress))
    /\ LET batch_progress == _load_batch_progress(progress)
           new_video_ids == SeqToSet(videos_to_download)
                                \ SeqToSet(batch_progress.pending_video_ids)
       IN  \E order \in Orderings(new_video_ids) :
               LET merged == IF new_video_ids # {}
                             THEN MergeNewVideos(batch_progress, order)
                             ELSE batch_progress
               IN  Planned(IF new_video_ids # {}
                           THEN _save_batch_progress(merged) ELSE progress,
                           IF new_video_ids # {} THEN "merge" ELSE "none",
                           merged,
                           merged.pending_video_ids,
                           archived_progress)

\* RESUME MODE: continue the existing batch
PlanResume ==
    /\ HasOngoingBatch(_load_batch_progress(progress))
    /\ LET batch_progress == _load_batch_progress(progress)
           new_video_ids == SeqToSet(videos_to_download)
                                \ SeqToSet(batch_progress.pending_video_ids)
       IN  \E order \in Orderings(new_video_ids) :
               LET merged == IF new_video_ids # {}
                             THEN MergeNewVideos(batch_progress, order)
                             ELSE batch_progress
                   InPending(v) == v \in SeqToSet(merged.pending_video_ids)
               IN  Planned(IF new_video_ids # {}
                           THEN _save_batch_progress(merged) ELSE progress,
                           IF new_video_ids # {} THEN "merge" ELSE "none",
                           merged,
                           SelectSeq(videos_to_download, InPending),
                           archived_progress)

\* the previous batch is marked completed: archive its file, start afresh
PlanAfterCompleted ==
    /\ ~HasOngoingBatch(_load_batch_progress(progress))
    /\ _load_batch_progress(progress).completed
    /\ IF Len(videos_to_download) > BatchSize
       THEN Planned(_initialize_batch_progress(videos_to_download), "init",
                    _initialize_batch_progress(videos_to_download),
                    videos_to_download,
                    RenamedFiles(archived_progress, progress))
       ELSE Planned(_archive_completed_batch_progress(progress), "rename",
                    _load_batch_progress(progress), videos_to_download,
                    RenamedFiles(archived_progress, progress))

\* first batch of a large download
PlanNewBatch ==
    /\ ~HasOngoingBatch(_load_batch_progress(progress))
    /\ ~_load_batch_progress(progress).completed
    /\ Len(videos_to_download) > BatchSize
    /\ Planned(_initialize_batch_progress(videos_to_download), "init",
               _initialize_batch_progress(videos_to_download), videos_to_download,
               archived_progress)

\* fault: a small download opens a batch as well
SmallRunOpensBatch ==
    /\ ~HasOngoingBatch(_load_batch_progress(progress))
    /\ ~_load_batch_progress(progress).completed
    /\ Len(videos_to_download) <= BatchSize
    /\ Planned(_initialize_batch_progress(videos_to_download), "init",
               _initialize_batch_progress(videos_to_download), videos_to_download,
               archived_progress)

\* small download, no batching
PlanSmall ==
    /\ ~HasOngoingBatch(_load_batch_progress(progress))
    /\ ~_load_batch_progress(progress).completed
    /\ Len(videos_to_download) <= BatchSize
    /\ Planned(progress, "none", _load_batch_progress(progress), videos_to_download,
               archived_progress)

----------------------------------------------------------------------------
(* The download loop                                                       *)

Saved(kind, before, after) ==
    IF after = before THEN lastWrite ELSE kind

NextItem ==
    /\ pc' = "loop"
    /\ idx' = idx + 1

InLoop == pc = "loop" /\ idx <= Len(current_batch)

\* the for loop is exhausted
LoopExit ==
    /\ pc = "loop"
    /\ idx > Len(current_batch)
    /\ pc' = "end"
    /\ UNCHANGED <<persistentVars, cancelled, urlSet, excluded_ids, entries, as_mp3, extracted, ei,
                   FAILED_VIDEO_IDS, videos_to_download, needs_batching,
                   current_batch, idx, successfully_downloaded, res,
                   historyVars, sideVars>>

\* "Check cancellation BEFORE each video": break
LoopCancel ==
    /\ InLoop
    /\ cancelled
    /\ pc' = "end"
    /\ UNCHANGED <<persistentVars, cancelled, urlSet, excluded_ids, entries, as_mp3, extracted, ei,
                   FAILED_VIDEO_IDS, videos_to_download, needs_batching,
                   current_batch, idx, successfully_downloaded, res,
                   historyVars, sideVars>>

\* the item is in the archive and its file is there: no fetch
LoopSkip ==
    /\ InLoop
    /\ ~cancelled
    /\ LET vid == current_batch[idx]
           after == IF needs_batching
                    THEN _remove_from_batch_progress(progress, vid)
                    ELSE progress
       IN  /\ AlreadyComplete(vid)
           /\ successfully_downloaded' = Append(successfully_downloaded, vid)
           /\ progress' = after
           /\ lastWrite' = Saved("remove", progress, after)
           /\ outcome' = [outcome EXCEPT ![vid] = "skipped"]
    /\ NextItem
    /\ UNCHANGED <<disk, archive, archived_progress, dbExcluded, guiExcluded, guiHasEntry, cancelled,
                   urlSet, excluded_ids, entries, as_mp3, extracted, ei, FAILED_VIDEO_IDS,
                   videos_to_download, needs_batching, current_batch, res,
                   runs, disturbances, fetchLog, cancelPc, dirty, prevAllVerified,
                   prevGood, prevAmbiguous, startArchive,
                   startDone, startConsistent, sideVars>>

\* fault: the loop does not look at the cancellation flag
FetchIgnoringCancel ==
    /\ InLoop
    /\ ~AlreadyComplete(current_batch[idx])
    /\ pc' = "fetching"
    /\ fetchLog' = Append(fetchLog, current_batch[idx])
    /\ UNCHANGED <<persistentVars, cancelled, urlSet, excluded_ids, entries, as_mp3, extracted, ei,
                   FAILED_VIDEO_IDS, videos_to_download, needs_batching,
                   current_batch, idx, successfully_downloaded, res, runs,
                   disturbances, outcome, lastWrite, cancelPc, dirty,
                   prevAllVerified, prevGood, prevAmbiguous, startArchive,
                   startDone, startConsistent, sideVars>>

\* ydl.download([video_url]) is called
LoopFetch ==
    /\ InLoop
    /\ ~cancelled
    /\ ~AlreadyComplete(current_batch[idx])
    /\ pc' = "fetching"
    /\ fetchLog' = Append(fetchLog, current_batch[idx])
    /\ UNCHANGED <<persistentVars, cancelled, urlSet, excluded_ids, entries, as_mp3, extracted, ei,
                   FAILED_VIDEO_IDS, videos_to_download, needs_batching,
                   current_batch, idx, successfully_downloaded, res, runs, disturbances,
                   outcome, lastWrite, cancelPc, dirty, prevAllVerified,
                   prevGood, prevAmbiguous, startArchive,
                   startDone, startConsistent, sideVars>>

\* ydl.download ends; _progress_hook_custom runs inside it when the tool
\* reports the error through the hook
FetchEnds(outcomes, counted) ==
    /\ pc = "fetching"
    /\ \E o \in outcomes :
           LET vid == current_batch[idx]
           IN  /\ (counted /\ o.wrote # "file") => disturbances < MaxDisturbances
               /\ disturbances' = IF counted /\ o.wrote # "file"
                                  THEN disturbances + 1 ELSE disturbances
               /\ res' = o
               /\ disk' = FolderAfterFetch(disk, vid, o.wrote)
               /\ guiExcluded' =
                      IF o.hook
                      THEN _add_excluded_id_to_gui_config(guiExcluded, guiHasEntry,
                                                          urlSet, vid, o.err)
                      ELSE guiExcluded
               /\ FAILED_VIDEO_IDS' =
                      IF o.hook /\ urlSet
                      THEN FailedAfterError(FAILED_VIDEO_IDS, vid, o.err)
                      ELSE FAILED_VIDEO_IDS
    /\ pc' = "post"
    /\ UNCHANGED <<archive, archived_progress, progress, dbExcluded, guiHasEntry, cancelled, urlSet,
                   excluded_ids, entries, as_mp3, extracted, ei, videos_to_download, needs_batching,
                   current_batch, idx, successfully_downloaded, runs, fetchLog,
                   outcome, lastWrite, cancelPc, dirty, prevAllVerified, prevGood, prevAmbiguous, startArchive, startDone, startConsistent,
                   sideVars>>

FetchReturn == FetchEnds(FetchOutcomes, TRUE)

\* fault: the handler of a failed item leaves the loop
ExceptionEndsBatch ==
    /\ pc = "post"
    /\ res.raised
    /\ LET vid == current_batch[idx]
       IN  /\ guiExcluded' = _add_excluded_id_to_gui_config(guiExcluded, guiHasEntry,
                                                            urlSet, vid, res.err)
           /\ FAILED_VIDEO_IDS' =
                  IF urlSet
                  THEN FailedAfterError(FAILED_VIDEO_IDS, vid, res.err)
                  ELSE FAILED_VIDEO_IDS
           /\ outcome' = [outcome EXCEPT ![vid] =
                  IF _is_permanent_error(res.err) THEN "permanent" ELSE "transient"]
    /\ pc' = "end"
    /\ idx' = idx
    /\ res' = NoResult
    /\ UNCHANGED <<disk, archive, archived_progress, progress, dbExcluded, guiHasEntry, cancelled,
                   urlSet, excluded_ids, entries, as_mp3, extracted, ei, videos_to_download,
                   needs_batching, current_batch, successfully_downloaded, runs, disturbances, fetchLog, lastWrite, cancelPc, dirty,
                   prevAllVerified, prevGood, prevAmbiguous,
                   startArchive, startDone, startConsistent, sideVars>>

\* except Exception as e: classify str(e), exclude if permanent
HandleException ==
    /\ pc = "post"
    /\ res.raised
    /\ LET vid == current_batch[idx]
       IN  /\ guiExcluded' = _add_excluded_id_to_gui_config(guiExcluded, guiHasEntry,
                                                            urlSet, vid, res.err)
           /\ FAILED_VIDEO_IDS' =
                  IF urlSet
                  THEN FailedAfterError(FAILED_VIDEO_IDS, vid, res.err)
                  ELSE FAILED_VIDEO_IDS
           /\ outcome' = [outcome EXCEPT ![vid] =
                  IF _is_permanent_error(res.err) THEN "permanent" ELSE "transient"]
    /\ NextItem
    /\ res' = NoResult
    /\ UNCHANGED <<disk, archive, archived_progress, progress, dbExcluded, guiHasEntry, cancelled,
                   urlSet, excluded_ids, entries, as_mp3, extracted, ei, videos_to_download,
                   needs_batching, current_batch, successfully_downloaded, runs, disturbances, fetchLog, lastWrite, cancelPc, dirty,
                   prevAllVerified, prevGood, prevAmbiguous,
                   startArchive, startDone, startConsistent, sideVars>>

\* "Incomplete download detected (.part file)": continue
HandlePart ==
    /\ pc = "post"
    /\ ~res.raised
    /\ MatchingPart(disk, current_batch[idx]) # {}
    /\ outcome' = [outcome EXCEPT ![current_batch[idx]] = "part"]
    /\ NextItem
    /\ res' = NoResult
    /\ UNCHANGED <<persistentVars, cancelled, urlSet, excluded_ids, entries, as_mp3, extracted, ei,
                   FAILED_VIDEO_IDS, videos_to_download, needs_batching,
                   current_batch, successfully_downloaded, runs, disturbances,
                   fetchLog, lastWrite, cancelPc, dirty, prevAllVerified,
                   prevGood, prevAmbiguous, startArchive,
                   startDone, startConsistent, sideVars>>

\* fault: a return code of 0 stands for the file
VerifiedByReturnCode(folder, vid, download_result) ==
    IF download_result = 0
    THEN StdName(vid)
    ELSE _get_video_file_path(folder, vid)

\* video_path of the verification: _get_video_file_path(wait_for_file=True),
\* then the alternative search when download() returned 0
VerifiedPath(folder, vid, download_result) ==
    IF _get_video_file_path(folder, vid) = NoPath /\ download_result = 0
    THEN AlternativeSearch(folder, vid)
    ELSE _get_video_file_path(folder, vid)

\* "Download verified, adding to archive"
HandleVerified ==
    /\ pc = "post"
    /\ ~res.raised
    /\ MatchingPart(disk, current_batch[idx]) = {}
    /\ LET vid == current_batch[idx]
       IN  /\ VerifiedPath(disk, vid, res.ret) # NoPath
           /\ archive' = _add_to_custom_archive(archive, vid)
           /\ successfully_downloaded' = Append(successfully_downloaded, vid)
           /\ outcome' = [outcome EXCEPT ![vid] =
                  IF _get_video_file_path(disk, vid) # NoPath
                  THEN "verified" ELSE "verified_alt"]
    /\ pc' = "archived"
    /\ res' = NoResult
    /\ UNCHANGED <<disk, progress, archived_progress, dbExcluded, guiExcluded,
                   guiHasEntry, cancelled,
                   urlSet, excluded_ids, entries, as_mp3, extracted, ei, FAILED_VIDEO_IDS,
                   videos_to_download, needs_batching, current_batch, idx, runs,
                   disturbances, fetchLog, lastWrite, cancelPc, dirty,
                   prevAllVerified, prevGood, prevAmbiguous,
                   startArchive, startDone, startConsistent, sideVars>>

\* after the archive append: _remove_from_batch_progress
UpdateProgress ==
    /\ pc = "archived"
    /\ LET after == IF needs_batching
                    THEN _remove_from_batch_progress(progress, current_batch[idx])
                    ELSE progress
       IN  /\ progress' = after
           /\ lastWrite' = Saved("remove", progress, after)
    /\ NextItem
    /\ UNCHANGED <<disk, archive, archived_progress, dbExcluded, guiExcluded, guiHasEntry, cancelled,
                   urlSet, excluded_ids, entries, as_mp3, extracted, ei, FAILED_VIDEO_IDS,
                   videos_to_download, needs_batching, current_batch,
                   successfully_downloaded, res, runs, disturbances, fetchLog, outcome,
                   cancelPc, dirty, prevAllVerified, prevGood,
                   prevAmbiguous, startArchive, startDone, startConsistent, sideVars>>

\* fault: an unverified download is recorded as failed
AmbiguousMarkedFailed ==
    /\ pc = "post"
    /\ ~res.raised
    /\ MatchingPart(disk, current_batch[idx]) = {}
    /\ VerifiedPath(disk, current_batch[idx], res.ret) = NoPath
    /\ outcome' = [outcome EXCEPT ![current_batch[idx]] = "ambiguous"]
    /\ FAILED_VIDEO_IDS' = FAILED_VIDEO_IDS \cup {current_batch[idx]}
    /\ NextItem
    /\ res' = NoResult
    /\ UNCHANGED <<persistentVars, cancelled, urlSet, excluded_ids, entries, as_mp3, extracted, ei,
                   videos_to_download, needs_batching, current_batch,
                   successfully_downloaded, runs, disturbances, fetchLog,
                   lastWrite, cancelPc, dirty, prevAllVerified, prevGood,
                   prevAmbiguous, startArchive, startDone, startConsistent,
                   sideVars>>

\* "Download completed but file not found on disk": nothing is recorded
HandleAmbiguous ==
    /\ pc = "post"
    /\ ~res.raised
    /\ MatchingPart(disk, current_batch[idx]) = {}
    /\ VerifiedPath(disk, current_batch[idx], res.ret) = NoPath
    /\ outcome' = [outcome EXCEPT ![current_batch[idx]] = "ambiguous"]
    /\ NextItem
    /\ res' = NoResult
    /\ UNCHANGED <<persistentVars, cancelled, urlSet, excluded_ids, entries, as_mp3, extracted, ei,
                   FAILED_VIDEO_IDS, videos_to_download, needs_batching,
                   current_batch, successfully_downloaded, runs, disturbances,
                   fetchLog, lastWrite, cancelPc, dirty, prevAllVerified,
                   prevGood, prevAmbiguous, startArchive,
                   startDone, startConsistent, sideVars>>

----------------------------------------------------------------------------
(* End of the invocation, its caller, and the environment                  *)

\* end-of-run _update_batch_progress(playlist_folder, successfully_downloaded)
EndRunUpdate ==
    /\ pc = "end"
    /\ IF needs_batching
       THEN /\ progress' = _update_batch_progress(progress,
                                                  SeqToSet(successfully_downloaded))
            /\ lastWrite' = "update"
       ELSE UNCHANGED <<progress, lastWrite>>
    /\ pc' = "updated"
    /\ UNCHANGED <<disk, archive, archived_progress, dbExcluded, guiExcluded, guiHasEntry, cancelled,
                   urlSet, excluded_ids, entries, as_mp3, extracted, ei, FAILED_VIDEO_IDS,
                   videos_to_download, needs_batching, current_batch, idx,
                   successfully_downloaded, res, runs, disturbances, fetchLog, outcome,
                   cancelPc, dirty, prevAllVerified, prevGood,
                   prevAmbiguous, startArchive, startDone, startConsistent, sideVars>>

\* the extraction runs whatever the cancellation flag says
GateIgnoresCancel(mp3, cancel_requested) == mp3

\* if as_mp3: skip the extraction when cancellation was requested
ExtractionGate(mp3, cancel_requested) == mp3 /\ ~cancel_requested

\* a completed batch file is renamed away; if as_mp3 and no cancellation was
\* requested the audio extraction is run; the function returns
EndRun ==
    /\ pc = "updated"
    /\ extracted' = ExtractionGate(as_mp3, cancelled)
    /\ progress' = IF needs_batching /\ progress.completed
                   THEN _archive_completed_batch_progress(progress)
                   ELSE progress
    /\ archived_progress' = IF needs_batching /\ progress.completed
                            THEN RenamedFiles(archived_progress, progress)
                            ELSE archived_progress
    /\ lastWrite' = IF needs_batching /\ progress.completed /\ progress.exists
                    THEN "rename" ELSE lastWrite
    /\ pc' = "returned"
    /\ urlSet' = FALSE
    /\ UNCHANGED <<disk, archive, dbExcluded, guiExcluded, guiHasEntry, cancelled,
                   excluded_ids, entries, as_mp3, ei, FAILED_VIDEO_IDS,
                   videos_to_download, needs_batching, current_batch, idx,
                   successfully_downloaded, res, runs, disturbances, fetchLog,
                   outcome, cancelPc, dirty, prevAllVerified, prevGood,
                   prevAmbiguous, startArchive, startDone, startConsistent, sideVars>>

\* the in-memory state of an invocation that is over
RunLocalsCleared ==
    /\ cancelled' = FALSE
    /\ urlSet' = FALSE
    /\ excluded_ids' = {}
    /\ entries' = << >>
    /\ as_mp3' = FALSE
    /\ extracted' = FALSE
    /\ ei' = 1
    /\ videos_to_download' = << >>
    /\ needs_batching' = FALSE
    /\ current_batch' = << >>
    /\ idx' = 1
    /\ successfully_downloaded' = << >>
    /\ res' = NoResult
    /\ fetchLog' = << >>
    /\ outcome' = NoOutcome
    /\ cancelPc' = "none"
    /\ startArchive' = {}
    /\ startDone' = {}
    /\ startConsistent' = FALSE

\* JobManager._run_job gets FAILED_VIDEO_IDS back.  cancel_job cancels the
\* job's task along with setting the flag, so a cancelled job merges nothing.
ReturnToCaller ==
    /\ pc = "returned"
    /\ dbExcluded' = IF cancelled
                     THEN dbExcluded
                     ELSE MergeFailedIds(dbExcluded, FAILED_VIDEO_IDS)
    /\ pc' = "idle"
    /\ prevAllVerified' = (~dirty /\ RunAllVerified)
    /\ prevGood' = (~dirty /\ RunWasExhaustive)
    /\ prevAmbiguous' = IF dirty THEN {}
                        ELSE {i \in Ids : outcome[i] \in {"ambiguous", "part"}}
    /\ RunLocalsCleared
    /\ UNCHANGED <<disk, archive, archived_progress, progress, guiExcluded, guiHasEntry,
                   FAILED_VIDEO_IDS, runs, disturbances, lastWrite, dirty, sideVars>>

RunningPcs == {"filter", "loop", "fetching", "post", "archived", "end", "updated"}

\* DownloadService.cancel_current_job: runstate.cancelled = True
Cancel ==
    /\ pc \in RunningPcs
    /\ ~cancelled
    /\ cancelled' = TRUE
    /\ cancelPc' = IF pc = "fetching" THEN "fetching" ELSE "between"
    /\ UNCHANGED <<persistentVars, pc, urlSet, excluded_ids, entries, as_mp3, extracted, ei,
                   FAILED_VIDEO_IDS, videos_to_download, needs_batching,
                   current_batch, idx, successfully_downloaded, res, runs, disturbances,
                   fetchLog, outcome, lastWrite, dirty, prevAllVerified,
                   prevGood, prevAmbiguous, startArchive,
                   startDone, startConsistent, sideVars>>

\* the process dies: only the files survive
Crash ==
    /\ pc # "idle"
    /\ disturbances < MaxDisturbances
    /\ disturbances' = disturbances + 1
    /\ pc' = "idle"
    /\ FAILED_VIDEO_IDS' = {}
    /\ RunLocalsCleared
    /\ dirty' = TRUE
    /\ prevAllVerified' = FALSE
    /\ prevGood' = FALSE
    /\ prevAmbiguous' = {}
    /\ UNCHANGED <<persistentVars, runs, lastWrite, sideVars>>

\* files a user may put into the folder
OutOfBandFiles ==
    {StdName(i) : i \in Ids \ {IdP}} \cup {LegacyName(i) : i \in Ids \ {IdP}}

\* the folder changes between two invocations or between two items
OutOfBand(folder) ==
    /\ pc \in {"idle", "loop"}
    /\ disturbances < MaxDisturbances
    /\ disturbances' = disturbances + 1
    /\ disk' = folder
    /\ dirty' = TRUE
    /\ prevAllVerified' = FALSE
    /\ prevGood' = FALSE
    /\ prevAmbiguous' = {}
    /\ startArchive' = {}
    /\ startDone' = {}
    /\ startConsistent' = FALSE
    /\ UNCHANGED <<archive, archived_progress, progress, dbExcluded, guiExcluded, guiHasEntry, runVars,
                   runs, fetchLog, outcome, lastWrite, cancelPc, sideVars>>

\* a file is deleted behind the program's back
OobDelete == \E f \in disk : OutOfBand(disk \ {f})

\* a file is put into the folder behind the program's back
OobCreate == \E f \in OutOfBandFiles \ disk : OutOfBand(disk \cup {f})

Next ==
    \/ StartRun
    \/ StartRunNoEntries
    \/ FilterCancelled
    \/ FilterEntry
    \/ PlanNothing
    \/ PlanResume
    \/ PlanAfterCompleted
    \/ PlanNewBatch
    \/ PlanSmall
    \/ LoopExit
    \/ LoopCancel
    \/ LoopSkip
    \/ LoopFetch
    \/ FetchReturn
    \/ HandleException
    \/ HandlePart
    \/ HandleVerified
    \/ UpdateProgress
    \/ HandleAmbiguous
    \/ EndRunUpdate
    \/ EndRun
    \/ ReturnToCaller
    \/ Cancel
    \/ Crash
    \/ OobDelete
    \/ OobCreate

Spec == Init /\ [][Next]_vars

----------------------------------------------------------------------------
(* The classifier applied to texts                                         *)

InitClassify ==
    /\ EngineInit
    /\ ExtractIdle
    /\ JobsIdle
    /\ PoolIdle
    /\ ServiceIdle
    /\ StoreIdle
    /\ text \in ClassifierTexts
    /\ verdict = "unset"

ClassifyText ==
    /\ verdict = "unset"
    /\ verdict' = Classify(text)
    /\ UNCHANGED <<storeVars, engineVars, text, extractVars, jobVars, poolVars, serviceVars>>

NextClassify == ClassifyText

SpecClassify == InitClassify /\ [][NextClassify]_vars

----------------------------------------------------------------------------
(* _extract_single_audio: one video file, one audio folder                  *)

MaxExtractions == 2

\* os.path.basename: what follows the last separator
RECURSIVE LastIndexOf(_, _, _)
LastIndexOf(s, c, k) ==
    IF k = 0 THEN 0
    ELSE IF s[k] = c THEN k
    ELSE LastIndexOf(s, c, k - 1)

basename(p) == SubSeq(p, LastIndexOf(p, "/", Len(p)) + 1, Len(p))

\* os.path.splitext: the extension starts at the last dot, unless only dots
\* come before it
splitext(p) ==
    LET dotIndex == LastIndexOf(p, ".", Len(p))
    IN  IF dotIndex > 0 /\ \E k \in 1..(dotIndex - 1) : p[k] # "."
        THEN <<SubSeq(p, 1, dotIndex - 1), SubSeq(p, dotIndex, Len(p))>>
        ELSE <<p, NoText>>

ExtMp3 == <<".", "m", "p", "3">>
ExtM4a == <<".", "m", "4", "a">>
ExtOpus == <<".", "o", "p", "u", "s">>
ExtMka == <<".", "m", "k", "a">>
ExtAac == <<".", "a", "a", "c">>
ExtOgg == <<".", "o", "g", "g">>

\* the check looks for the .mp3 file only
Mp3Only == <<ExtMp3>>

audio_extensions == <<ExtMp3, ExtM4a, ExtOpus, ExtMka, ExtAac, ExtOgg>>

ExtractModes == {"copy", "opus", "mp3_best", "mp3_high"}

\* output extension of the configured mode
audio_ext(mode) ==
    IF mode = "copy" THEN ExtM4a
    ELSE IF mode = "opus" THEN ExtOpus
    ELSE ExtMp3

\* os.path.isfile(os.path.join(audio_folder, name))
isfile(folder, name) == [name |-> name, isfile |-> TRUE] \in folder

\* the extensions of audio_extensions, in order, under which base_name exists
ExistingIndexes(folder, base_name) ==
    {i \in 1..Len(audio_extensions) : isfile(folder, base_name \o audio_extensions[i])}

Min(S) == CHOOSE x \in S : \A y \in S : x <= y

\* the ffmpeg of the call writes the output file, or fails and may leave one
WriteAudio(folder, name) ==
    (folder \ {[name |-> name, isfile |-> FALSE]}) \cup {[name |-> name, isfile |-> TRUE]}

isdir(folder, name) == [name |-> name, isfile |-> FALSE] \in folder

VidMissing == 0 - 1

\* exit codes of ffmpeg as subprocess.run reports them, written in decimal
\* (4294967274 is -22 read as an unsigned 32-bit number, 234 is -22 as a
\* POSIX exit status): success, a plain failure, "invalid argument"
ReturnCodes == {"0", "1", "22", "-22", "4294967274", "234"}

\* fault: every failed run of copy mode is retried as MP3
AnyFailureFallsBack == {"1", "22", "-22", "4294967274", "234"}

\* the codes after which copy mode falls back to MP3
CopyFallbackCodes == {"4294967274", "-22", "22"}

\* the video files handed to the call
VideoDir == <<"v", "/">>
VidA == VideoDir \o <<"a", ".", "m", "p", "4">>
VidAB == VideoDir \o <<"a", ".", "b", ".", "m", "k", "v">>
VidPaths == {VidA, VidAB}

File(name) == [name |-> name, isfile |-> TRUE]
Dir(name) == [name |-> name, isfile |-> FALSE]

\* what the audio folder may hold before a call
AudioUniverse ==
    { File(<<"a">> \o ExtMp3),
      File(<<"a">> \o ExtOgg),
      File(<<"a", ".", "b">> \o ExtMka),
      File(<<"a", ".", "M", "P", "3">>),
      File(<<"a", ".", "m", "p", "3", ".", "t", "x", "t">>),
      Dir(<<"a">> \o ExtAac),
      File(<<"b">> \o ExtM4a) }

\* a call is submitted by extract_audio_for_existing_playlist_folder
SubmitExtraction ==
    /\ xpc \in {"idle", "done"}
    /\ extractions < MaxExtractions
    /\ \E mode \in ExtractModes, p \in VidPaths, size \in {VidMissing, 0, 1} :
           /\ AUDIO_EXTRACT_MODE' = mode
           /\ vid_path' = p
           /\ vid_size' = size
    /\ xpc' = "ready"
    /\ result' = NoExtractResult
    /\ transcoderCalls' = 0
    /\ returncodes' = << >>
    /\ audioBefore' = audio_folder
    /\ extractions' = extractions + 1
    /\ UNCHANGED <<storeVars, engineVars, classifierVars, jobVars, poolVars, serviceVars, audio_folder>>

\* the outcome of the run(s) of ffmpeg
Transcode(base_name, audio_path) ==
    \E raised \in BOOLEAN, returncode \in ReturnCodes, leaves \in BOOLEAN :
        IF raised
        THEN /\ result' = [status |-> "failed", audio |-> audio_path, fallback |-> FALSE]
             /\ transcoderCalls' = 1
             /\ returncodes' = << >>
             /\ UNCHANGED audio_folder
        ELSE IF returncode = "0"
        THEN /\ ~isdir(audio_folder, audio_path)
             /\ result' = [status |-> "success", audio |-> audio_path, fallback |-> FALSE]
             /\ transcoderCalls' = 1
             /\ returncodes' = <<returncode>>
             /\ audio_folder' = WriteAudio(audio_folder, audio_path)
        ELSE IF AUDIO_EXTRACT_MODE = "copy" /\ returncode \in CopyFallbackCodes
        THEN LET fallback_audio_path == base_name \o ExtMp3
             IN  /\ transcoderCalls' = 2
                 /\ \E fallback_raised \in BOOLEAN, fallback_returncode \in ReturnCodes :
                        /\ returncodes' = IF fallback_raised THEN <<returncode>>
                                          ELSE <<returncode, fallback_returncode>>
                        /\ IF ~fallback_raised /\ fallback_returncode = "0"
                           THEN /\ ~isdir(audio_folder, fallback_audio_path)
                                /\ result' = [status |-> "success",
                                              audio |-> fallback_audio_path,
                                              fallback |-> TRUE]
                                /\ audio_folder' =
                                       WriteAudio(audio_folder, fallback_audio_path)
                           ELSE /\ result' = [status |-> "failed", audio |-> audio_path,
                                              fallback |-> FALSE]
                                /\ UNCHANGED audio_folder
        ELSE /\ result' = [status |-> "failed", audio |-> audio_path, fallback |-> FALSE]
             /\ transcoderCalls' = 1
             /\ returncodes' = <<returncode>>
             /\ audio_folder' = IF leaves /\ ~isdir(audio_folder, audio_path)
                                THEN WriteAudio(audio_folder, audio_path)
                                ELSE audio_folder

\* fault: the video file is handed to ffmpeg without looking at it
ExtractWithoutFileCheck ==
    /\ xpc = "ready"
    /\ xpc' = "done"
    /\ LET base_name == splitext(basename(vid_path))[1]
           audio_path == base_name \o audio_ext(AUDIO_EXTRACT_MODE)
           existing == ExistingIndexes(audio_folder, base_name)
       IN  IF existing # {}
           THEN /\ result' = [status |-> "skipped",
                              audio |-> base_name \o audio_extensions[Min(existing)],
                              fallback |-> FALSE]
                /\ UNCHANGED <<storeVars, transcoderCalls, returncodes, audio_folder>>
           ELSE Transcode(base_name, audio_path)
    /\ UNCHANGED <<storeVars, engineVars, classifierVars, jobVars, poolVars, serviceVars,
                   AUDIO_EXTRACT_MODE, vid_path, vid_size, audioBefore, extractions>>

_extract_single_audio ==
    /\ xpc = "ready"
    /\ xpc' = "done"
    /\ LET base_name == splitext(basename(vid_path))[1]
           audio_path == base_name \o audio_ext(AUDIO_EXTRACT_MODE)
           existing == ExistingIndexes(audio_folder, base_name)
       IN  IF existing # {}
           THEN /\ result' = [status |-> "skipped",
                              audio |-> base_name \o audio_extensions[Min(existing)],
                              fallback |-> FALSE]
                /\ UNCHANGED <<storeVars, transcoderCalls, returncodes, audio_folder>>
           ELSE IF vid_size = VidMissing \/ vid_size = 0
           THEN /\ result' = [status |-> "failed", audio |-> audio_path, fallback |-> FALSE]
                /\ UNCHANGED <<storeVars, transcoderCalls, returncodes, audio_folder>>
           ELSE Transcode(base_name, audio_path)
    /\ UNCHANGED <<storeVars, engineVars, classifierVars, jobVars, poolVars, serviceVars,
                   AUDIO_EXTRACT_MODE, vid_path, vid_size, audioBefore, extractions>>

InitExtract ==
    /\ EngineInit
    /\ ClassifierIdle
    /\ JobsIdle
    /\ PoolIdle
    /\ ServiceIdle
    /\ StoreIdle
    /\ AUDIO_EXTRACT_MODE \in ExtractModes
    /\ vid_path = NoText
    /\ vid_size = 0
    /\ audio_folder \in SUBSET AudioUniverse
    /\ xpc = "idle"
    /\ result = NoExtractResult
    /\ transcoderCalls = 0
    /\ returncodes = << >>
    /\ audioBefore = {}
    /\ extractions = 0

NextExtract ==
    \/ SubmitExtraction
    \/ _extract_single_audio

SpecExtract == InitExtract /\ [][NextExtract]_vars

----------------------------------------------------------------------------
(* Two jobs of JobManager for different playlists, each with its own        *)
(* DownloadService, both running the engine in the one tools module         *)

\* items in the batch of each job
MaxItems == 2

\* DownloadService.download_playlist up to run_in_executor: a fresh runstate
\* is stored in the service and in the module global
StartJob(j) ==
    /\ jobPc[j] = "idle"
    /\ jobPc' = [jobPc EXCEPT ![j] = "check"]
    /\ runstate_cancelled' = [runstate_cancelled EXCEPT ![j] = FALSE]
    /\ current_runstate' = [current_runstate EXCEPT ![j] = j]
    /\ GLOBAL_RUNSTATE' = j
    /\ UNCHANGED <<storeVars, engineVars, classifierVars, extractVars, poolVars, serviceVars, jobItems, cancelRequested>>

\* getattr(GLOBAL_RUNSTATE, "cancelled", False) as the loop of a job reads it
SeesCancel(j) ==
    GLOBAL_RUNSTATE # None /\ runstate_cancelled[GLOBAL_RUNSTATE]

\* for vid in current_batch: the cancellation check stops the loop
JobLoopCancelled(j) ==
    /\ jobPc[j] = "check"
    /\ SeesCancel(j)
    /\ jobPc' = [jobPc EXCEPT ![j] = "stopped"]
    /\ UNCHANGED <<storeVars, engineVars, classifierVars, extractVars, poolVars, serviceVars, jobItems, current_runstate,
                   runstate_cancelled, GLOBAL_RUNSTATE, cancelRequested>>

\* no cancellation seen: the next item is handed to ydl.download
JobLoopFetch(j) ==
    /\ jobPc[j] = "check"
    /\ ~SeesCancel(j)
    /\ jobItems[j] < MaxItems
    /\ jobPc' = [jobPc EXCEPT ![j] = "fetch"]
    /\ UNCHANGED <<storeVars, engineVars, classifierVars, extractVars, poolVars, serviceVars, jobItems, current_runstate,
                   runstate_cancelled, GLOBAL_RUNSTATE, cancelRequested>>

\* the fetch of the item ends and the loop comes to its next checkpoint
JobFetchReturn(j) ==
    /\ jobPc[j] = "fetch"
    /\ jobPc' = [jobPc EXCEPT ![j] = "check"]
    /\ jobItems' = [jobItems EXCEPT ![j] = jobItems[j] + 1]
    /\ UNCHANGED <<storeVars, engineVars, classifierVars, extractVars, poolVars, serviceVars, current_runstate,
                   runstate_cancelled, GLOBAL_RUNSTATE, cancelRequested>>

\* the batch is exhausted
JobLoopExit(j) ==
    /\ jobPc[j] = "check"
    /\ ~SeesCancel(j)
    /\ jobItems[j] = MaxItems
    /\ jobPc' = [jobPc EXCEPT ![j] = "finished"]
    /\ UNCHANGED <<storeVars, engineVars, classifierVars, extractVars, poolVars, serviceVars, jobItems, current_runstate,
                   runstate_cancelled, GLOBAL_RUNSTATE, cancelRequested>>

\* JobManager.cancel_job on a job that is registered in download_services
cancel_job(j) ==
    /\ jobPc[j] \in {"check", "fetch"}
    /\ ~cancelRequested[j]
    /\ cancelRequested' = [cancelRequested EXCEPT ![j] = TRUE]
    /\ runstate_cancelled' =
           IF current_runstate[j] # None
           THEN [runstate_cancelled EXCEPT ![current_runstate[j]] = TRUE]
           ELSE runstate_cancelled
    /\ UNCHANGED <<storeVars, engineVars, classifierVars, extractVars, poolVars, serviceVars, jobPc, jobItems,
                   current_runstate, GLOBAL_RUNSTATE>>

InitJobs ==
    /\ EngineInit
    /\ ClassifierIdle
    /\ ExtractIdle
    /\ JobsIdle
    /\ PoolIdle
    /\ ServiceIdle
    /\ StoreIdle

NextJobs ==
    \E j \in Jobs :
        \/ StartJob(j)
        \/ JobLoopCancelled(j)
        \/ JobLoopFetch(j)
        \/ JobFetchReturn(j)
        \/ JobLoopExit(j)
        \/ cancel_job(j)

SpecJobs == InitJobs /\ [][NextJobs]_vars

----------------------------------------------------------------------------
(* extract_audio_for_existing_playlist_folder: a thread pool runs           *)
(* _extract_single_audio on every video file and a loop drains the results, *)
(* while download jobs of the same process come and go                      *)

\* max_extraction_workers as configured for the runs checked here
MAX_EXTRACTION_WORKERS == 2

\* the video files the playlist folder may hold, in the order of the glob
\* patterns *.mp4, *.mkv, *.webm
VidAmkv == VideoDir \o <<"a", ".", "m", "k", "v">>
VidBwebm == VideoDir \o <<"b", ".", "w", "e", "b", "m">>
PoolVideoList == <<VidA, VidAmkv, VidBwebm>>

\* video_files for a folder holding the given files
Globbed(files) ==
    LET Found(p) == p \in files
    IN  SelectSeq(PoolVideoList, Found)

\* audio_path of the worker for a video file
AudioPath(path, mode) == splitext(basename(path))[1] \o audio_ext(mode)

\* fallback_audio_path of the worker for a video file
FallbackAudioPath(path) == splitext(basename(path))[1] \o ExtMp3

\* the cancellation check of the drain loop
ExtractionSeesCancel ==
    GLOBAL_RUNSTATE # None /\ runstate_cancelled[GLOBAL_RUNSTATE]

WorkItems == 1..Len(video_files)

Running == {k \in WorkItems : futures[k] = "running"}

\* DownloadService.extract_audio calls the function: early returns, or every
\* file is submitted to the pool
StartExtraction ==
    /\ poolPc = "idle"
    /\ \E files \in SUBSET SeqToSet(PoolVideoList), mode \in ExtractModes,
          callback \in BOOLEAN :
           /\ video_files' = Globbed(files)
           /\ futures' = [k \in 1..Len(Globbed(files)) |-> "pending"]
           /\ futureResults' = [k \in 1..Len(Globbed(files)) |-> "none"]
           /\ poolPc' = IF files = {} THEN "returned" ELSE "drain"
           /\ AUDIO_EXTRACT_MODE' = mode
           /\ callbackInstalled' = callback
    /\ drained' = {}
    /\ completed' = 0
    /\ failed' = 0
    /\ EXTRACTED_AUDIO' = {}
    /\ SKIPPED_AUDIO_EXISTING' = {}
    /\ progressCalls' = << >>
    /\ observed' = FALSE
    /\ cancelsAtStart' = {j \in Jobs : cancelRequested[j]}
    /\ UNCHANGED <<storeVars, engineVars, classifierVars, jobVars, serviceVars, vid_path, vid_size,
                   audio_folder, xpc, result, transcoderCalls, returncodes,
                   audioBefore, extractions>>

\* a free worker thread takes the oldest queued work item
WorkerStart(k) ==
    /\ poolPc \in {"drain", "exit"}
    /\ k \in WorkItems
    /\ futures[k] = "pending"
    /\ \A l \in 1..(k - 1) : futures[l] # "pending"
    /\ Cardinality(Running) < MAX_EXTRACTION_WORKERS
    /\ futures' = [futures EXCEPT ![k] = "running"]
    /\ UNCHANGED <<storeVars, engineVars, classifierVars, extractVars, jobVars, serviceVars,
                   video_files, futureResults, poolPc, drained, completed, failed,
                   EXTRACTED_AUDIO, SKIPPED_AUDIO_EXISTING, progressCalls,
                   callbackInstalled, observed, cancelsAtStart>>

\* _extract_single_audio returns its dict, or raises outside its try block
FutureResults == {"success", "skipped", "failed", "raised"}

WorkerFinish(k) ==
    /\ k \in WorkItems
    /\ futures[k] = "running"
    /\ futures' = [futures EXCEPT ![k] = "finished"]
    /\ \E r \in FutureResults : futureResults' = [futureResults EXCEPT ![k] = r]
    /\ UNCHANGED <<storeVars, engineVars, classifierVars, extractVars, jobVars, serviceVars,
                   video_files, poolPc, drained, completed, failed,
                   EXTRACTED_AUDIO, SKIPPED_AUDIO_EXISTING, progressCalls,
                   callbackInstalled, observed, cancelsAtStart>>

\* as_completed hands a finished future to the loop and no cancellation is
\* seen: the body of the loop
Drain(k) ==
    /\ poolPc = "drain"
    /\ k \in WorkItems \ drained
    /\ futures[k] = "finished"
    /\ ~ExtractionSeesCancel
    /\ drained' = drained \cup {k}
    /\ IF futureResults[k] = "raised"
       THEN /\ failed' = failed + 1
            /\ UNCHANGED <<storeVars, completed, EXTRACTED_AUDIO, SKIPPED_AUDIO_EXISTING,
                           progressCalls>>
       ELSE /\ completed' = completed + 1
            /\ SKIPPED_AUDIO_EXISTING' =
                   IF futureResults[k] = "skipped"
                   THEN SKIPPED_AUDIO_EXISTING \cup {k} ELSE SKIPPED_AUDIO_EXISTING
            /\ EXTRACTED_AUDIO' =
                   IF futureResults[k] = "success"
                   THEN EXTRACTED_AUDIO \cup {k} ELSE EXTRACTED_AUDIO
            /\ failed' = IF futureResults[k] = "failed" THEN failed + 1 ELSE failed
            /\ progressCalls' =
                   IF callbackInstalled
                   THEN Append(progressCalls, <<Len(video_files), completed + 1>>)
                   ELSE progressCalls
    /\ UNCHANGED <<storeVars, engineVars, classifierVars, extractVars, jobVars, serviceVars,
                   video_files, futures, futureResults, poolPc,
                   callbackInstalled, observed, cancelsAtStart>>

\* fault: the pool is shut down without cancel_futures
ShutdownKeepsQueue(fs) == fs

\* executor.shutdown(wait=False, cancel_futures=True): queued items are
\* cancelled, running ones are left alone
Shutdown(fs) ==
    [k \in DOMAIN fs |-> IF fs[k] = "pending" THEN "cancelled" ELSE fs[k]]

\* as_completed hands a finished future to the loop and the cancellation is
\* seen: the pool is shut down and the loop is left
ObserveCancel ==
    /\ poolPc = "drain"
    /\ \E k \in WorkItems \ drained : futures[k] = "finished"
    /\ ExtractionSeesCancel
    /\ futures' = Shutdown(futures)
    /\ observed' = TRUE
    /\ poolPc' = "exit"
    /\ UNCHANGED <<storeVars, engineVars, classifierVars, extractVars, jobVars, serviceVars,
                   video_files, futureResults, drained, completed, failed,
                   EXTRACTED_AUDIO, SKIPPED_AUDIO_EXISTING, progressCalls,
                   callbackInstalled, cancelsAtStart>>

\* as_completed is exhausted
DrainEnd ==
    /\ poolPc = "drain"
    /\ drained = WorkItems
    /\ poolPc' = "exit"
    /\ UNCHANGED <<storeVars, engineVars, classifierVars, extractVars, jobVars, serviceVars,
                   video_files, futures, futureResults, drained, completed, failed,
                   EXTRACTED_AUDIO, SKIPPED_AUDIO_EXISTING, progressCalls,
                   callbackInstalled, observed, cancelsAtStart>>

\* the with block is left: shutdown(wait=True) joins the worker threads, then
\* the summary is printed and the function returns
PoolExit ==
    /\ poolPc = "exit"
    /\ \A k \in WorkItems : futures[k] \notin {"pending", "running"}
    /\ poolPc' = "returned"
    /\ UNCHANGED <<storeVars, engineVars, classifierVars, extractVars, jobVars, serviceVars,
                   video_files, futures, futureResults, drained, completed, failed,
                   EXTRACTED_AUDIO, SKIPPED_AUDIO_EXISTING, progressCalls,
                   callbackInstalled, observed, cancelsAtStart>>

\* the job whose downloads run in the same process
PoolJob == 1

NextPool ==
    \/ StartJob(PoolJob)
    \/ JobLoopCancelled(PoolJob)
    \/ JobLoopFetch(PoolJob)
    \/ JobFetchReturn(PoolJob)
    \/ JobLoopExit(PoolJob)
    \/ cancel_job(PoolJob)
    \/ StartExtraction
    \/ \E k \in 1..Len(PoolVideoList) : WorkerStart(k)
    \/ \E k \in 1..Len(PoolVideoList) : WorkerFinish(k)
    \/ \E k \in 1..Len(PoolVideoList) : Drain(k)
    \/ ObserveCancel
    \/ DrainEnd
    \/ PoolExit

SpecPool == Init /\ [][NextPool]_vars

----------------------------------------------------------------------------
(* Jobs created through the API: create_job accepts them, JobManager runs   *)
(* each as a task whose download worker thread runs the engine in the one   *)
(* tools module                                                             *)

\* the ids each playlist enumerates, in order
PlaylistItems(p) == IF p = "A" THEN <<IdA, IdB>> ELSE <<IdC, IdP>>

\* the engine's variables other than the module global FAILED_VIDEO_IDS
otherEngineVars ==
    <<persistentVars, pc, cancelled, urlSet, excluded_ids, entries, ei,
      videos_to_download, needs_batching, current_batch, idx,
      successfully_downloaded, res, as_mp3, extracted, historyVars>>

\* Job.status in ["pending", "running"] for the playlist
ExistingJob(p) ==
    \E k \in Jobs : jobPlaylist[k] = p /\ jobStatus[k] \in {"pending", "running"}

\* POST /jobs: rejected while a job of the playlist is pending or running,
\* else the Job row is added and the task is created
create_job(j, p) ==
    /\ jobStatus[j] = "none"
    /\ ~ExistingJob(p)
    /\ jobStatus' = [jobStatus EXCEPT ![j] = "pending"]
    /\ jobPlaylist' = [jobPlaylist EXCEPT ![j] = p]
    /\ UNCHANGED <<storeVars, engineVars, classifierVars, extractVars, jobVars, poolVars,
                   jobExcluded, jobReturned, jobDone, playlistExcluded>>

\* _run_job up to the await on the worker thread: the job is running, the
\* service installs its fresh runstate and submits the engine run
RunJob(j) ==
    /\ jobStatus[j] = "pending"
    /\ jobStatus' = [jobStatus EXCEPT ![j] = "running"]
    /\ jobExcluded' = [jobExcluded EXCEPT ![j] = playlistExcluded[jobPlaylist[j]]]
    /\ jobPc' = [jobPc EXCEPT ![j] = "start"]
    /\ runstate_cancelled' = [runstate_cancelled EXCEPT ![j] = FALSE]
    /\ current_runstate' = [current_runstate EXCEPT ![j] = j]
    /\ GLOBAL_RUNSTATE' = j
    /\ UNCHANGED <<storeVars, engineVars, classifierVars, extractVars, poolVars, jobItems,
                   cancelRequested, jobPlaylist, jobReturned, jobDone,
                   playlistExcluded>>

\* the engine run begins on its worker thread: FAILED_VIDEO_IDS = set()
WorkerBegin(j) ==
    /\ jobPc[j] = "start"
    /\ jobPc' = [jobPc EXCEPT ![j] = "check"]
    /\ FAILED_VIDEO_IDS' = {}
    /\ UNCHANGED <<storeVars, otherEngineVars, classifierVars, extractVars, poolVars, serviceVars,
                   jobItems, current_runstate, runstate_cancelled, GLOBAL_RUNSTATE,
                   cancelRequested>>

\* FAILED_VIDEO_IDS.add(vid) after a permanent failure
FailedAdd(failed_ids, vid) == failed_ids \cup {vid}

\* the fetch of the item ends, well or with a permanent failure
WorkerFetchReturn(j) ==
    /\ jobPc[j] = "fetch"
    /\ jobPc' = [jobPc EXCEPT ![j] = "check"]
    /\ jobItems' = [jobItems EXCEPT ![j] = jobItems[j] + 1]
    /\ \E permanent \in BOOLEAN :
           FAILED_VIDEO_IDS' =
               IF permanent
               THEN FailedAdd(FAILED_VIDEO_IDS,
                              PlaylistItems(jobPlaylist[j])[jobItems[j] + 1])
               ELSE FAILED_VIDEO_IDS
    /\ UNCHANGED <<storeVars, otherEngineVars, classifierVars, extractVars, poolVars, serviceVars,
                   current_runstate, runstate_cancelled, GLOBAL_RUNSTATE,
                   cancelRequested>>

\* the loop is left, by the cancellation check or at the end of the batch,
\* and the run returns FAILED_VIDEO_IDS
WorkerReturn(j) ==
    /\ jobPc[j] = "check"
    /\ SeesCancel(j) \/ jobItems[j] = MaxItems
    /\ jobPc' = [jobPc EXCEPT ![j] = IF SeesCancel(j) THEN "stopped" ELSE "finished"]
    /\ jobReturned' = [jobReturned EXCEPT ![j] = FAILED_VIDEO_IDS]
    /\ jobDone' = [jobDone EXCEPT ![j] = TRUE]
    /\ UNCHANGED <<storeVars, engineVars, classifierVars, extractVars, poolVars, jobItems,
                   current_runstate, runstate_cancelled, GLOBAL_RUNSTATE,
                   cancelRequested, jobStatus, jobPlaylist, jobExcluded,
                   playlistExcluded>>

\* the await of _run_job returns: failed ids are added to the playlist's
\* exclusions and the job is completed
JobCompletes(j) ==
    /\ jobStatus[j] = "running"
    /\ jobDone[j]
    /\ playlistExcluded' = [playlistExcluded EXCEPT ![jobPlaylist[j]] =
                               @ \cup jobReturned[j]]
    /\ jobStatus' = [jobStatus EXCEPT ![j] = "completed"]
    /\ UNCHANGED <<storeVars, engineVars, classifierVars, extractVars, jobVars, poolVars,
                   jobPlaylist, jobExcluded, jobReturned, jobDone>>

\* task.cancel() of cancel_job reaches _run_job at its await: the job is
\* marked cancelled while its worker thread goes on
JobCancelled(j) ==
    /\ jobStatus[j] = "running"
    /\ cancelRequested[j]
    /\ jobStatus' = [jobStatus EXCEPT ![j] = "cancelled"]
    /\ UNCHANGED <<storeVars, engineVars, classifierVars, extractVars, jobVars, poolVars,
                   jobPlaylist, jobExcluded, jobReturned, jobDone,
                   playlistExcluded>>

NextService ==
    \E j \in Jobs :
        \/ \E p \in Playlists : create_job(j, p)
        \/ RunJob(j)
        \/ WorkerBegin(j)
        \/ JobLoopFetch(j)
        \/ WorkerFetchReturn(j)
        \/ WorkerReturn(j)
        \/ JobCompletes(j)
        \/ cancel_job(j)
        \/ JobCancelled(j)

SpecService == Init /\ [][NextService]_vars

----------------------------------------------------------------------------
(* The engine invoked again and again, never cancelled, with fetches that    *)
(* either leave the file or fail permanently                                 *)

\* every fetch succeeds or the item turns out to be unavailable
LiveOutcomes ==
    { o \in FetchOutcomes :
        \/ o.wrote = "file"
        \/ o.raised /\ o.err = TextUnavailable }

FetchReturnLive == FetchEnds(LiveOutcomes, FALSE)

\* one more invocation, whatever the number of earlier ones
StartRunAgain ==
    /\ BeginRun(Catalogue, FALSE)
    /\ UNCHANGED runs

\* the steps of the engine that can occur here: from the empty folder the first
\* invocation opens a batch, and from then on either a batch is active or
\* nothing is left to fetch
EngineStepsLive ==
    \/ StartRunAgain
    \/ FilterEntry
    \/ PlanNothing
    \/ PlanResume
    \/ PlanNewBatch
    \/ LoopExit
    \/ LoopFetch
    \/ FetchReturnLive
    \/ HandleException
    \/ HandleVerified
    \/ UpdateProgress
    \/ EndRunUpdate
    \/ EndRun
    \/ ReturnToCaller

NextLive ==
    \/ EngineStepsLive
    \/ Crash

\* the engine runs on and is invoked again each time it has returned; a crash
\* is never bound to happen
SpecLive == Init /\ [][NextLive]_vars /\ WF_vars(EngineStepsLive)

----------------------------------------------------------------------------
(* Properties of the engine                                                *)

\* the loop has been planned: current_batch is what this invocation fetches
PlannedPcs == {"loop", "fetching", "post", "archived", "end", "updated"}

\* C1: after a run, every item whose fetch completed and whose media file was
\* then located on disk is in the archive file and is not in
\* pending_video_ids of the persisted batch progress.
C1_VerifiedArchivedNotPending ==
    pc = "returned" =>
        \A i \in Ids :
            outcome[i] \in {"verified", "verified_alt"} =>
                /\ i \in SeqToSet(archive)
                /\ i \notin SeqToSet(progress.pending_video_ids)

\* a run returned with a verified item while other ids are still pending
C1_Witness ==
    /\ pc = "returned"
    /\ progress.exists
    /\ progress.pending_video_ids # << >>
    /\ \E i \in Ids : outcome[i] = "verified"

\* C2: every persisted batch_progress.json (initialization, resume merge,
\* per-item removal, end-of-run update) has
\* downloaded_count + len(pending_video_ids) = total_videos.
C2_BatchInvariant ==
    progress.exists =>
        progress.downloaded_count + Len(progress.pending_video_ids)
            = progress.total_videos

\* the file was last written by the resume merge, after some downloads
C2_Witness ==
    /\ progress.exists
    /\ lastWrite = "merge"
    /\ progress.downloaded_count > 0
    /\ progress.pending_video_ids # << >>

\* C3: the classifier maps "HTTP Error 429: Too Many Requests" to Transient
\* and "This video is private" to Permanent.
C3_Classifier ==
    verdict # "unset" =>
        /\ text = TextRateLimit => verdict = "Transient"
        /\ text = TextPrivate => verdict = "Permanent"

\* items of the batch after the one in flight (or, between items, from idx on)
Remaining ==
    {current_batch[k] :
        k \in (IF pc \in {"fetching", "post", "archived"}
               THEN idx + 1 ELSE idx)..Len(current_batch)}

\* a run cancelled during a fetch ends with that item's outcome recorded
C4_InFlightFinishes ==
    (cancelled /\ cancelPc = "fetching" /\ pc \in {"end", "updated", "returned"}) =>
        outcome[fetchLog[Len(fetchLog)]] # "none"

\* once cancelled during a fetch: no further fetch starts, and the remaining
\* items are neither failed, nor excluded, nor taken out of pending
C4_NothingAfterCancel ==
    (cancelled /\ cancelPc = "fetching") =>
        /\ Len(fetchLog') <= Len(fetchLog)
        /\ \A i \in Remaining :
               /\ i \in FAILED_VIDEO_IDS' => i \in FAILED_VIDEO_IDS
               /\ i \in guiExcluded' => i \in guiExcluded
               /\ i \in dbExcluded' => i \in dbExcluded
               /\ i \in SeqToSet(progress.pending_video_ids)
                      => i \in SeqToSet(progress'.pending_video_ids)

\* C4: if the cancellation flag is set while item i of the batch is being
\* fetched, item i finishes, no fetch is started for a later item, and no
\* remaining item is added to the failed ids, added to an exclusion list or
\* removed from pending_video_ids.
C4_Cancellation ==
    /\ [](C4_InFlightFinishes)
    /\ [][C4_NothingAfterCancel]_vars

\* cancelled during the fetch of an item that was then verified, with items
\* of the batch still to come and still pending
C4_Witness ==
    /\ pc = "returned"
    /\ cancelled
    /\ cancelPc = "fetching"
    /\ outcome[fetchLog[Len(fetchLog)]] = "verified"
    /\ idx <= Len(current_batch)
    /\ current_batch[idx] \in SeqToSet(progress.pending_video_ids)

\* C5 as stated: a run that follows an uncancelled run whose fetches were all
\* verified, with no out-of-band change in between, fetches nothing.
C5_SecondRunFetchesNothing ==
    prevAllVerified => fetchLog = << >>

\* C5: if the first run was not cancelled, left no candidate to a later
\* batch, and each of its fetches ended with the file located under the
\* item's id or with a Permanent failure merged into the exclusions, then
\* the second run, with the playlist and the folder unchanged, fetches
\* nothing.
C5_Idempotence ==
    prevGood => fetchLog = << >>

\* such a second run has returned, after an earlier run archived something
C5_Witness ==
    /\ prevGood
    /\ pc = "returned"
    /\ ~cancelled
    /\ entries # << >>
    /\ archive # << >>
    /\ fetchLog = << >>

\* the filtering step of an enumerated, non-excluded, available entry appends
\* the id iff it is not archived or no file of the folder embeds it
C6_DecisionRule ==
    (pc = "filter" /\ pc' = "filter" /\ ei' = ei + 1) =>
        LET e == entries[ei]
        IN  (e.id \notin excluded_ids
                /\ ~is_entry_unavailable(e, excluded_ids, FAILED_VIDEO_IDS)) =>
                IF e.id \notin SeqToSet(archive) \/ VideoFileMatches(disk, e.id) = {}
                THEN videos_to_download' = Append(videos_to_download, e.id)
                ELSE videos_to_download' = videos_to_download

\* every available item was in the archive when the invocation started
startAllArchived == Available(Catalogue, dbExcluded) \subseteq startArchive

\* the available items that were archived then with no file on disk
startMissing == (Available(Catalogue, dbExcluded) \cap startArchive) \ startDone

\* every available item was archived and exactly one of them had no file
\* when the run started: the run fetched that item and no other
C6_Reconciliation ==
    (pc = "returned" /\ ~cancelled /\ ~dirty /\ entries # << >> /\ startAllArchived) =>
        \A x \in Ids : startMissing = {x} => fetchLog = <<x>>

\* C6: an enumerated, non-excluded, available item is selected iff its id is
\* absent from the archive or no media file embedding its id is found; when
\* every available item is archived and on disk and one file is deleted
\* out-of-band, the next run fetches that item and no other.
C6_DecisionAndReconciliation ==
    /\ [][C6_DecisionRule]_vars
    /\ [](C6_Reconciliation)

\* the file of IdA was deleted and the run re-fetched IdA alone
C6_Witness ==
    /\ pc = "returned"
    /\ ~cancelled
    /\ ~dirty
    /\ startAllArchived
    /\ startMissing = {IdA}
    /\ fetchLog = <<IdA>>
    /\ outcome[IdA] = "verified"

\* C7: one invocation hands at most batch_size items to the external fetch,
\* whatever the progress file and the number of candidates; the candidates
\* beyond the batch stay in pending_video_ids.
C7_BatchLimit ==
    /\ Len(fetchLog) <= BatchSize
    /\ (pc \in PlannedPcs \cup {"returned"} /\ needs_batching) =>
           \A k \in (Len(current_batch) + 1)..Len(videos_to_download) :
               videos_to_download[k] \in SeqToSet(progress.pending_video_ids)

\* a full batch was fetched and a candidate is left pending
C7_Witness ==
    /\ pc = "returned"
    /\ Len(fetchLog) = BatchSize
    /\ Len(videos_to_download) > BatchSize
    /\ progress.pending_video_ids # << >>

\* the error text of the fetch that a step handles
HandledErrorText == IF pc = "fetching" THEN res'.err ELSE res.err

\* C8: the engine adds an id to the persisted exclusion list only when the
\* error text of its failed fetch is classified Permanent; for every text
\* classified Transient, a text matching no pattern included, the id is not
\* excluded.
C8_ExcludedOnlyWhenPermanent ==
    [][\A i \in guiExcluded' \ guiExcluded :
           Classify(HandledErrorText) = "Permanent"]_vars

\* C9: the set the engine returns never holds an id whose fetch failed with a
\* Transient error, was detection-ambiguous or succeeded, nor a candidate
\* left unattempted by cancellation or the batch limit: a candidate is in it
\* only after a Permanent failure.
C9_ReturnedSet ==
    pc = "returned" =>
        \A i \in FAILED_VIDEO_IDS :
            IF i \in SeqToSet(videos_to_download)
            THEN outcome[i] = "permanent"
            ELSE outcome[i] = "none"

\* a run returned one permanent failure, and not the transient one beside it
C9_Witness ==
    /\ pc = "returned"
    /\ \E i \in FAILED_VIDEO_IDS : outcome[i] = "permanent"
    /\ \E j \in Ids : outcome[j] = "transient"

\* the step that finds no file after a fetch that did not raise records nothing
C10_NothingRecorded ==
    (\E i \in Ids : outcome'[i] \in {"ambiguous", "part"} /\ outcome[i] = "none") =>
        /\ archive' = archive
        /\ FAILED_VIDEO_IDS' = FAILED_VIDEO_IDS
        /\ guiExcluded' = guiExcluded
        /\ dbExcluded' = dbExcluded

\* the caller merges no such id into the exclusions, and the next
\* invocation, once it has enumerated the playlist, has the id in its batch
C10_SelectedAgain ==
    /\ \A i \in Ids :
           outcome[i] \in {"ambiguous", "part"} =>
               i \notin FAILED_VIDEO_IDS /\ i \notin dbExcluded
    /\ (pc \in PlannedPcs /\ entries # << >>) =>
           prevAmbiguous \subseteq SeqToSet(current_batch)

\* C10: when the fetch of an item returns without raising but no media file
\* of the id is located, the id is not appended to the archive, not added to
\* the failed ids, not excluded, and the item is selected again by the next
\* invocation.
C10_Ambiguous ==
    /\ [][C10_NothingRecorded]_vars
    /\ [](C10_SelectedAgain)

\* the next invocation is fetching an item whose last fetch left no file
C10_Witness ==
    /\ pc = "fetching"
    /\ current_batch[idx] \in prevAmbiguous
    /\ current_batch[idx] \notin SeqToSet(archive)

\* the items that were neither excluded nor unavailable nor complete (archived
\* with their file on disk) when the invocation started
NewAtStart == Available(Catalogue, dbExcluded) \ startDone

\* number of fetches of an item in this invocation
Fetches(i) == Cardinality({k \in 1..Len(fetchLog) : fetchLog[k] = i})

\* items whose file the invocation located after their fetch
VerifiedInRun == {i \in Ids : outcome[i] \in {"verified", "verified_alt"}}

\* C11: an invocation that enumerated the playlist and was neither cancelled
\* nor disturbed from outside fetches no item that was archived and on disk
\* when it started, does not fetch the private item and returns it among the
\* failed ids, fetches every item of its batch that is not complete exactly
\* once (a single new item is always in the batch), and leaves in the archive
\* exactly the ids it had at the start plus the ids whose file was located
\* after their fetch.
C11_EndToEndFrame ==
    (pc = "returned" /\ ~cancelled /\ ~dirty /\ entries # << >>) =>
        /\ \A i \in startDone : Fetches(i) = 0
        /\ Fetches(IdP) = 0
        /\ IdP \in FAILED_VIDEO_IDS
        /\ \A i \in Ids : Fetches(i) <= 1
        /\ \A i \in SeqToSet(current_batch) : Fetches(i) = 1
        /\ SeqToSet(fetchLog) \subseteq NewAtStart
        /\ Cardinality(NewAtStart) = 1 => SeqToSet(fetchLog) = NewAtStart
        /\ SeqToSet(archive) = startArchive \cup VerifiedInRun
        /\ VerifiedInRun \subseteq SeqToSet(fetchLog)

\* one item was complete, one private, one new: the new one was fetched once,
\* its file located, and its id is the one id the archive gained
C11_Witness ==
    /\ pc = "returned" /\ ~cancelled /\ ~dirty
    /\ IdA \in startDone
    /\ Cardinality(NewAtStart) = 1
    /\ \E n \in NewAtStart :
           /\ fetchLog = <<n>>
           /\ outcome[n] = "verified"
           /\ n \notin startArchive
           /\ SeqToSet(archive) = startArchive \cup {n}
    /\ IdP \in FAILED_VIDEO_IDS

\* the audio folder held, when the call started, a regular file with the base
\* name of the video and a supported audio extension
AudioExistedBefore ==
    \E f \in audioBefore :
        /\ f.isfile
        /\ splitext(f.name)[1] = splitext(basename(vid_path))[1]
        /\ splitext(f.name)[2] \in {ExtMp3, ExtM4a, ExtOpus, ExtMka, ExtAac, ExtOgg}

\* C12: for every video file and extraction mode, if the audio folder already
\* holds a file with the video's base name and one of the extensions .mp3,
\* .m4a, .opus, .mka, .aac, .ogg, _extract_single_audio returns status
\* "skipped" and runs no transcoder subprocess.
C12_ExtractionIdempotence ==
    (xpc = "done" /\ AudioExistedBefore) =>
        /\ result.status = "skipped"
        /\ transcoderCalls = 0
        /\ audio_folder = audioBefore

\* a second call, in opus mode, found the .m4a file the first call had made
C12_Witness ==
    /\ xpc = "done"
    /\ extractions = 2
    /\ AUDIO_EXTRACT_MODE = "opus"
    /\ vid_size = 1
    /\ result = [status |-> "skipped", audio |-> <<"a">> \o ExtM4a, fallback |-> FALSE]
    /\ File(<<"a">> \o ExtMp3) \notin audio_folder

\* C13: every invocation with as_mp3 true in which no cancellation is
\* requested has run the audio extraction over the playlist folder when it
\* returns, whatever the state of the collection.
C13_ExtractionAlwaysRun ==
    (pc = "returned" /\ as_mp3 /\ ~cancelled) => extracted

\* C14: an invocation that saw the cancellation flag while filtering the
\* entries or in the download loop never runs the audio extraction.
C14_NoExtractionAfterCancel ==
    cancelled => ~extracted

\* an invocation asked to extract was cancelled during a fetch, after it had
\* archived an item, and has returned
C14_Witness ==
    /\ pc = "returned"
    /\ as_mp3
    /\ cancelled
    /\ cancelPc = "fetching"
    /\ ~extracted
    /\ \E i \in Ids : outcome[i] = "verified"

\* once cancel_job was called for a job, its download loop starts no fetch
CancelledJobStops ==
    \A j \in Jobs :
        cancelRequested[j] => ~(jobPc[j] = "check" /\ jobPc'[j] = "fetch")

\* a download loop is stopped by the cancellation check only if cancel_job
\* was called for its own job
OtherJobKeepsRunning ==
    \A j \in Jobs : jobPc[j] = "stopped" => cancelRequested[j]

\* C15: with two jobs for different playlists running concurrently, a
\* cancellation requested for one job stops that job's download loop at its
\* next checkpoint and does not stop the download loop of the other job.
C15_CancellationPerJob ==
    /\ [][CancelledJobStops]_vars
    /\ [](OtherJobKeepsRunning)

\* a batch is active: the progress file has pending ids and is not completed
ActiveBatch ==
    /\ progress.exists
    /\ progress.pending_video_ids # << >>
    /\ ~progress.completed

\* the progress file of the batch has been renamed away
BatchArchived ==
    /\ ~progress.exists
    /\ archived_progress # << >>
    /\ archived_progress[Len(archived_progress)].completed
    /\ archived_progress[Len(archived_progress)].pending_video_ids = << >>

\* C16: with repeated invocations, no cancellation, an unchanged playlist,
\* finitely many crashes, and fetches that either succeed and verify or fail
\* permanently, an active batch eventually has an empty pending list, is
\* completed, and its progress file is archived.
C16_BatchLiveness == ActiveBatch ~> BatchArchived

\* ids of the persisted pending list
PersistedPending == SeqToSet(_load_batch_progress(progress).pending_video_ids)

\* an id leaves the persisted pending list only once it is in the archive
ArchivedBeforeRemoved ==
    \A i \in PersistedPending :
        i \notin SeqToSet(_load_batch_progress(progress').pending_video_ids)
            => i \in SeqToSet(archive)

\* when a fetch starts in a batched run, the removal of every id the run has
\* archived so far is in the progress file
RemovalsPersistedBeforeFetch ==
    (pc = "fetching" /\ needs_batching) =>
        \A i \in SeqToSet(successfully_downloaded) : i \notin PersistedPending

\* at every point of a run that started from a consistent state, at most the
\* item in flight has its file on disk while pending or not archived
OnlyInFlightInconsistent ==
    (pc # "idle" /\ startConsistent /\ ~dirty) =>
        LET left == Inconsistent
        IN  /\ Cardinality(left) <= 1
            /\ left # {} =>
                   /\ pc \in {"post", "archived"}
                   /\ left = {current_batch[idx]}

\* C17: the archive append of an item comes before its removal from the
\* persisted pending list, each removal is persisted before the next fetch
\* starts, and a crash at any point of a run that started from a consistent
\* state leaves at most one item, the one in flight, with its file on disk
\* while its id is pending or missing from the archive.
C17_CrashConsistency ==
    /\ [][ArchivedBeforeRemoved]_vars
    /\ [](RemovalsPersistedBeforeFetch /\ OnlyInFlightInconsistent)

\* the second item of a batched run is archived and still pending, the first
\* one is archived and removed
C17_Witness ==
    /\ pc = "archived"
    /\ needs_batching
    /\ startConsistent /\ ~dirty
    /\ idx = 2
    /\ outcome[current_batch[1]] = "verified"
    /\ current_batch[1] \notin PersistedPending
    /\ Inconsistent = {current_batch[2]}
    /\ current_batch[2] \in SeqToSet(archive)

\* the id that the step appends to the archive
Appended == archive'[Len(archive')]

\* a video file of the folder holds "[id]" or "_id." in its name
StandardFileOnDisk(vid) ==
    \E f \in disk :
        /\ \E k \in 1..Len(video_exts) : EndsWith(f, video_exts[k])
        /\ \/ Contains(f, <<"[">> \o vid \o <<"]">>)
           \/ Contains(f, <<"_">> \o vid \o <<".">>)

\* a video file of the folder holds the id in its name, compared in lower case
AnyFileWithIdOnDisk(vid) ==
    \E f \in disk :
        /\ \E k \in 1..Len(video_exts) : EndsWith(ToLower(f), video_exts[k])
        /\ Contains(ToLower(f), ToLower(vid))

\* C18 as stated: an id is appended to the archive only if, at the moment of
\* the append, a video file whose name embeds the id as "[id]" or "_id." is in
\* the playlist folder; never on the strength of the return code or of
\* another file.
C18_ArchivedOnlyWhenLocated ==
    [][archive' # archive =>
          /\ archive' = Append(archive, Appended)
          /\ StandardFileOnDisk(Appended)]_vars

\* C18, amended: an id is appended to the archive only if, at the moment of
\* the append, a video file whose name embeds the id as "[id]" or "_id." is in
\* the folder, or the fetch returned 0 and a video file whose lower-cased
\* name holds the lower-cased id is in the folder; never on the strength of
\* the return code alone.
C18_ArchivedOnlyWhenFileFound ==
    [][archive' # archive =>
          /\ archive' = Append(archive, Appended)
          /\ Appended = current_batch[idx]
          /\ \/ StandardFileOnDisk(Appended)
             \/ res.ret = 0 /\ AnyFileWithIdOnDisk(Appended)]_vars

\* an id was appended after the alternative search found a file that the
\* standard lookup does not find
C18_Witness ==
    /\ pc = "archived"
    /\ outcome[current_batch[idx]] = "verified_alt"
    /\ archive # << >>
    /\ archive[Len(archive)] = current_batch[idx]
    /\ ~StandardFileOnDisk(current_batch[idx])
    /\ AnyFileWithIdOnDisk(current_batch[idx])

\* the step is the batch management of a run that found a non-completed
\* progress file with pending ids
ResumeStep ==
    /\ pc = "filter"
    /\ pc' = "loop"
    /\ progress.exists
    /\ progress.pending_video_ids # << >>
    /\ ~progress.completed

\* candidates of the fresh enumeration that the old pending list does not have
NewCandidates == SeqToSet(videos_to_download) \ SeqToSet(progress.pending_video_ids)

\* C19: when a run starts with a non-completed progress file that has pending
\* ids, every candidate of the fresh enumeration that is absent from the old
\* pending list is appended to pending_video_ids exactly once, total_videos
\* grows by the number of appended ids, the result is in the progress file
\* before the first fetch of the run, and no id that was pending is
\* duplicated or dropped.
C19_ResumeMerge ==
    [][ResumeStep =>
          LET old == progress.pending_video_ids
              now == progress'.pending_video_ids
          IN  /\ progress'.exists
              /\ Len(now) = Len(old) + Cardinality(NewCandidates)
              /\ SubSeq(now, 1, Len(old)) = old
              /\ {now[k] : k \in (Len(old) + 1)..Len(now)} = NewCandidates
              /\ progress'.total_videos
                     = progress.total_videos + Cardinality(NewCandidates)
              /\ ~progress'.completed
              /\ fetchLog' = << >>]_vars

\* a resumed run has appended a new candidate behind the old pending ids and
\* has not fetched yet
C19_Witness ==
    /\ pc = "loop"
    /\ idx = 1
    /\ fetchLog = << >>
    /\ lastWrite = "merge"
    /\ progress.exists
    /\ Len(progress.pending_video_ids) >= 2
    /\ progress.total_videos > Len(progress.pending_video_ids)

\* the step empties the pending list of the progress file
LastPendingRemoved ==
    /\ progress.exists /\ progress.pending_video_ids # << >>
    /\ progress'.exists /\ progress'.pending_video_ids = << >>

\* the end of a run that has an emptied, completed progress file
CompletedRunEnds ==
    /\ pc = "updated" /\ pc' = "returned"
    /\ needs_batching
    /\ progress.exists
    /\ progress.pending_video_ids = << >>

\* the batch management of an invocation that found the file renamed away
PlansAfterRename ==
    /\ pc = "filter" /\ pc' = "loop"
    /\ lastWrite = "rename"

\* persisted as completed, then renamed with its content, and the next
\* invocation plans as from the Idle scheduler state
C20_Steps ==
    /\ LastPendingRemoved => progress'.completed
    /\ CompletedRunEnds =>
           /\ progress.completed
           /\ ~progress'.exists
           /\ archived_progress' = Append(archived_progress, progress)
    /\ PlansAfterRename =>
           /\ ~progress.exists
           /\ IF Len(videos_to_download) > BatchSize
              THEN /\ progress'.exists
                   /\ progress'.pending_video_ids = videos_to_download
                   /\ progress'.downloaded_count = 0
                   /\ ~progress'.completed
              ELSE /\ ~progress'.exists
                   /\ ~needs_batching'
                   /\ current_batch' = videos_to_download

\* between the removal of the last pending id and the renaming the file is
\* marked completed; once renamed, no progress file is there and the renamed
\* one holds the completed record
C20_States ==
    /\ (progress.exists /\ progress.pending_video_ids = << >>) => progress.completed
    /\ lastWrite = "rename" =>
           /\ ~progress.exists
           /\ archived_progress # << >>
           /\ archived_progress[Len(archived_progress)].completed
           /\ archived_progress[Len(archived_progress)].pending_video_ids = << >>

\* C20: in the run in which the last pending id is removed the progress
\* record is persisted with completed = true and an empty pending list, the
\* file is then renamed (kept with its content, not deleted), and the next
\* invocation finds no active progress file and plans as from the Idle state.
C20_CompletionAndArchival ==
    /\ [][C20_Steps]_vars
    /\ [](C20_States)

\* after a batch was completed and its file renamed, the next invocation has
\* found no progress file and fetches without batching
C20_Witness ==
    /\ pc = "fetching"
    /\ lastWrite = "rename"
    /\ ~needs_batching
    /\ Len(archived_progress) = 1
    /\ archived_progress[1].total_videos = 3
    /\ archived_progress[1].downloaded_count = 3

\* the batch management of an invocation
PlanStep == pc = "filter" /\ pc' = "loop"

\* with no progress file and at most batch_size candidates the batch
\* management creates no file and selects every candidate; and while an
\* invocation without batching runs, no step creates the file
C21_Steps ==
    /\ (PlanStep /\ ~progress.exists /\ Len(videos_to_download) <= BatchSize) =>
           /\ ~progress'.exists
           /\ ~needs_batching'
           /\ current_batch' = videos_to_download
    /\ (pc = "filter" /\ ~PlanStep) => progress' = progress
    /\ (pc \in PlannedPcs /\ ~needs_batching /\ ~progress.exists) => ~progress'.exists

\* such an invocation, when it ends without cancellation, has fetched every
\* candidate once, in order, except those found complete by the loop's check
C21_States ==
    (pc \in {"end", "updated", "returned"} /\ ~needs_batching /\ ~cancelled
         /\ entries # << >>) =>
        /\ current_batch = videos_to_download
        /\ LET Fetched(v) == outcome[v] # "skipped"
           IN  fetchLog = SelectSeq(videos_to_download, Fetched)
        /\ \A k \in 1..Len(videos_to_download) :
               outcome[videos_to_download[k]] # "none"

\* C21: when no progress file exists at the start of a run and the candidates
\* are at most batch_size, the run creates no batch_progress.json at any point
\* and attempts every candidate in that one run, absent cancellation.
C21_BelowThreshold ==
    /\ [][C21_Steps]_vars
    /\ [](C21_States)

\* a run without batching and without a progress file has returned after
\* fetching its candidates
C21_Witness ==
    /\ pc = "returned"
    /\ ~cancelled /\ ~dirty
    /\ ~needs_batching
    /\ ~progress.exists
    /\ videos_to_download # << >>
    /\ fetchLog = videos_to_download

\* the entry of the enumeration with this id matches the unavailability
\* heuristic (title, description, error text or availability)
MatchesHeuristic(vid) ==
    \E k \in 1..Len(entries) :
        /\ entries[k].id = vid
        /\ is_entry_unavailable(entries[k], {}, {})

\* C22: no item whose id is in the exclusion set given to the run, and no item
\* matching the unavailability heuristic, is ever passed to the fetch tool,
\* even when its id is in pending_video_ids persisted by an earlier run.
C22_ExcludedNeverFetched ==
    \A k \in 1..Len(fetchLog) :
        /\ fetchLog[k] \notin excluded_ids
        /\ ~MatchesHeuristic(fetchLog[k])

\* a resumed run is fetching while an excluded id is still in the persisted
\* pending list
C22_Witness ==
    /\ pc = "fetching"
    /\ progress.exists
    /\ \E i \in SeqToSet(progress.pending_video_ids) : i \in excluded_ids
    /\ IdP \notin SeqToSet(fetchLog)

\* the handler of an exception raised by the fetch of the current item ends
ExceptionHandled == pc = "post" /\ res.raised /\ pc' \notin {"post", "idle"}

C23_Steps ==
    ExceptionHandled =>
        /\ pc' = "loop"
        /\ idx' = idx + 1
        /\ current_batch' = current_batch
        /\ outcome'[current_batch[idx]] \in {"permanent", "transient"}

C23_States ==
    (pc = "end" /\ ~cancelled) =>
        /\ idx > Len(current_batch)
        /\ \A k \in 1..Len(current_batch) : outcome[current_batch[k]] # "none"

\* C23: an exception raised while fetching an item, permanent or transient,
\* never ends the batch: the loop goes on with the next item, and a run that
\* leaves the loop without a cancellation request has attempted every item
\* of its batch.
C23_ErrorIsolation == /\ [][C23_Steps]_vars /\ [](C23_States)

\* the first item of the batch raised and the second one was fetched after it
C23_Witness ==
    /\ pc = "end"
    /\ ~cancelled
    /\ Len(current_batch) = 2
    /\ outcome[current_batch[1]] \in {"permanent", "transient"}
    /\ fetchLog = current_batch

\* the exit codes that stand for "no suitable stream"
NoSuitableStream == {"-22", "22", "4294967274"}

\* C30: for one media file the transcoder is invoked at most twice; the second
\* invocation (MP3 re-encode) happens only in mode 'copy' after a first exit
\* with -22, 22 or 4294967274; the result is then 'success' with the fallback
\* flag iff the second invocation exits 0 and 'failed' otherwise; in every
\* other mode a non-zero exit yields 'failed' after exactly one invocation.
C30_FormatFallback ==
    xpc = "done" =>
        /\ transcoderCalls <= 2
        /\ transcoderCalls = 2 =>
               /\ AUDIO_EXTRACT_MODE = "copy"
               /\ Len(returncodes) >= 1
               /\ returncodes[1] \in NoSuitableStream
               /\ IF Len(returncodes) = 2 /\ returncodes[2] = "0"
                  THEN result.status = "success" /\ result.fallback
                  ELSE result.status = "failed" /\ ~result.fallback
        /\ result.fallback => transcoderCalls = 2
        /\ (AUDIO_EXTRACT_MODE # "copy" /\ Len(returncodes) >= 1 /\ returncodes[1] # "0") =>
               /\ result.status = "failed"
               /\ transcoderCalls = 1

\* copy mode, first exit 4294967274, the MP3 re-encode exits 0
C30_Witness ==
    /\ xpc = "done"
    /\ AUDIO_EXTRACT_MODE = "copy"
    /\ returncodes = <<"4294967274", "0">>
    /\ result.status = "success"
    /\ result.fallback
    /\ result.audio = <<"a">> \o ExtMp3

\* a download loop that the cancellation check stopped, in the job that
\* installed its run state last, had its own cancellation requested
LaterDownloadUnaffected ==
    \A j \in Jobs :
        (jobPc[j] = "stopped" /\ GLOBAL_RUNSTATE = j) => cancelRequested[j]

\* an extraction run during which no cancellation was requested returns
\* with every work item run and drained
LaterExtractionUnaffected ==
    (poolPc = "returned" /\ {j \in Jobs : cancelRequested[j]} = cancelsAtStart) =>
        /\ \A k \in WorkItems : futures[k] = "finished"
        /\ drained = WorkItems

\* C24: the run state is per invocation: a cancellation requested during one
\* invocation has no effect on a later one; a later download or extract-only
\* run that is itself never cancelled processes all of its work items.
C24_RunStatePerInvocation ==
    /\ LaterDownloadUnaffected
    /\ LaterExtractionUnaffected

\* the output paths a worker may write for a work item
Targets(k) ==
    {AudioPath(video_files[k], AUDIO_EXTRACT_MODE)}
        \cup (IF AUDIO_EXTRACT_MODE = "copy"
              THEN {FallbackAudioPath(video_files[k])} ELSE {})

\* C27: in one extraction run no two pool workers target the same output audio
\* path: for every set of video files found in the folder, the output paths of
\* the workers, the .mp3 fallback path included, are pairwise distinct.
C27_DistinctOutputPaths ==
    poolPc # "idle" =>
        \A k \in WorkItems, l \in WorkItems :
            k # l => Targets(k) \cap Targets(l) = {}

\* once the loop saw the flag no queued item is started, and a running item
\* is never taken out of the running state except by finishing
NoStartNoKill ==
    \A k \in DOMAIN futures :
        /\ (observed /\ futures[k] = "pending") => futures'[k] # "running"
        /\ futures[k] = "running" => futures'[k] \in {"running", "finished"}

\* the function returns only when nothing is in flight
ReturnsAfterInFlight ==
    poolPc = "returned" =>
        \A k \in WorkItems :
            /\ futures[k] \in {"finished", "cancelled"}
            /\ futures[k] = "finished" <=> futureResults[k] # "none"
            /\ (futures[k] = "cancelled") => observed

\* C28: once the drain loop has seen the cancellation flag, no work item that
\* has not started is ever started, every item in flight runs to completion
\* (none is killed), and the function returns only after all items in flight
\* have finished.
C28_PoolCancellation == /\ [][NoStartNoKill]_vars /\ [](ReturnsAfterInFlight)

\* a cancelled run returned: the queued third item was never started, the two
\* in flight finished
C28_Witness ==
    /\ poolPc = "returned"
    /\ observed
    /\ futures = <<"finished", "finished", "cancelled">>
    /\ drained = {}

\* C29: the progress callback is invoked once per drained result with
\* (total, completed), total being the number of video files found and
\* completed going 1, 2, 3, ... without gaps or repeats, never above total; in
\* a run that is not cancelled the last call has completed = total and
\* succeeded + skipped + failed = total.
C29_ExtractionProgress ==
    callbackInstalled =>
        /\ Len(progressCalls) = Cardinality(drained)
        /\ \A i \in 1..Len(progressCalls) :
               /\ progressCalls[i] = <<Len(video_files), i>>
               /\ i <= Len(video_files)
        /\ (poolPc = "returned" /\ ~observed /\ video_files # << >>) =>
               /\ progressCalls # << >>
               /\ progressCalls[Len(progressCalls)][2] = Len(video_files)
               /\ Cardinality(EXTRACTED_AUDIO) + Cardinality(SKIPPED_AUDIO_EXISTING)
                      + failed = Len(video_files)

\* the download worker of the job is executing the engine
Executing(j) == jobPc[j] \in {"start", "check", "fetch"}

\* C25: at most one engine download run works on a playlist at any time: a
\* new job for a playlist is accepted only when no earlier job's download
\* worker for it is still executing, so batch_progress.json and archive.txt
\* are never written by two runs concurrently, also after a job was cancelled.
C25_OneRunPerPlaylist ==
    \A j \in Jobs, k \in Jobs :
        (j # k /\ jobPlaylist[j] # "none" /\ jobPlaylist[j] = jobPlaylist[k]) =>
            ~((Executing(j) \/ jobStatus[j] = "pending") /\ Executing(k))

\* C26: the set a download run for a playlist returns holds only ids of that
\* playlist's enumeration or of its exclusion input, also when a run for
\* another playlist starts or runs concurrently; ids failed in the other run
\* are never merged into this playlist's exclusions.
C26_FailedIdIsolation ==
    /\ \A j \in Jobs :
           jobDone[j] =>
               jobReturned[j] \subseteq
                   SeqToSet(PlaylistItems(jobPlaylist[j])) \cup jobExcluded[j]
    /\ \A p \in Playlists :
           playlistExcluded[p] \subseteq SeqToSet(PlaylistItems(p))

\* C31: for a video file with no audio file of the same base name in the audio
\* folder, if the video file is missing or has length zero,
\* _extract_single_audio returns status "failed" and runs no transcoder
\* subprocess.
C31_MissingOrEmptyVideo ==
    (xpc = "done" /\ ~AudioExistedBefore /\ vid_size \in {VidMissing, 0}) =>
        /\ result.status = "failed"
        /\ ~result.fallback
        /\ transcoderCalls = 0
        /\ returncodes = << >>
        /\ audio_folder = audioBefore

\* a call for a.b.mkv of length zero, its folder holding audio of other base
\* names only
C31_Witness ==
    /\ xpc = "done"
    /\ vid_path = VidAB
    /\ vid_size = 0
    /\ File(<<"a">> \o ExtMp3) \in audioBefore
    /\ ~AudioExistedBefore
    /\ result.status = "failed"
    /\ transcoderCalls = 0

\* the text holds one of the patterns, letter case aside
HoldsOneOf(s, patterns) ==
    \E p \in 1..Len(patterns) :
        \E k \in 0..(Len(s) - Len(patterns[p])) :
            \A i \in 1..Len(patterns[p]) :
                LowerChar(s[k + i]) = LowerChar(patterns[p][i])

\* C32: a text holding any transient pattern is Transient even when it also
\* holds a permanent pattern; a text holding a permanent pattern and no
\* transient one is Permanent; a text holding neither, the empty text
\* included, is Transient.  Matching is case-insensitive.
C32_ClassifierPriority ==
    verdict # "unset" =>
        /\ HoldsOneOf(text, transient_patterns) => verdict = "Transient"
        /\ (HoldsOneOf(text, permanent_patterns)
                /\ ~HoldsOneOf(text, transient_patterns)) => verdict = "Permanent"
        /\ (~HoldsOneOf(text, permanent_patterns)
                /\ ~HoldsOneOf(text, transient_patterns)) => verdict = "Transient"

\* "Video unavailable" followed by "Read Timeout" was classified
C32_Witness ==
    /\ text = TextUnavailable \o TextTimeout
    /\ HoldsOneOf(text, permanent_patterns)
    /\ HoldsOneOf(text, transient_patterns)
    /\ verdict = "Transient"

\* upper-case "COPYRIGHT claim" alone was classified
C32_WitnessCase ==
    /\ text = TextCopyrightUpper
    /\ verdict = "Permanent"

\* the empty text was classified
C32_WitnessEmpty ==
    /\ text = TextEmpty
    /\ verdict = "Transient"

\* no step takes an id out of the playlist's excluded ids, in the database or
\* in the GUI config
ExclusionsKept ==
    /\ dbExcluded \subseteq dbExcluded'
    /\ guiExcluded \subseteq guiExcluded'

\* C33: the exclusion set is monotonically additive: neither the engine's
\* permanent-failure handling nor the job manager's merge of the returned
\* failed ids ever removes an id from a collection's exclusion list.
C33_ExclusionMonotone == [][ExclusionsKept]_vars

\* a second run's failed id was merged into a list that held the first run's
C33_Witness ==
    /\ pc = "idle"
    /\ runs >= 2
    /\ Cardinality(dbExcluded) >= 2
    /\ guiExcluded # {}

----------------------------------------------------------------------------
(* archive.txt as text: _load_custom_archive parses it line by line,        *)
(* _add_to_custom_archive appends "youtube <id>\n"                          *)

Newline == "\n"

Space == " "

\* the characters an archive text is made of here
ArchiveChars == {"a", "b", Space, "#", Newline}

MaxArchiveLen == 4

RECURSIVE TextsUpTo(_, _)
TextsUpTo(chars, n) ==
    IF n = 0
    THEN {<< >>}
    ELSE LET shorter == TextsUpTo(chars, n - 1)
         IN shorter \cup {Append(t, c) : t \in {u \in shorter : Len(u) = n - 1}, c \in chars}

ArchiveTexts == TextsUpTo(ArchiveChars, MaxArchiveLen)

ArchiveIdArgs == {<<"a">>, <<"b">>, <<"a", "b">>}

\* `for line in f`: the lines of the text, the newline that ends a line left out
RECURSIVE FileLines(_)
FileLines(content) ==
    IF content = << >>
    THEN << >>
    ELSE IF \E i \in 1..Len(content) : content[i] = Newline
         THEN LET i == CHOOSE k \in 1..Len(content) :
                           /\ content[k] = Newline
                           /\ \A m \in 1..(k - 1) : content[m] # Newline
              IN <<SubSeq(content, 1, i - 1)>> \o FileLines(SubSeq(content, i + 1, Len(content)))
         ELSE <<content>>

\* str.strip()
strip(line) ==
    IF \A i \in 1..Len(line) : line[i] = Space
    THEN << >>
    ELSE LET first == CHOOSE i \in 1..Len(line) :
                          line[i] # Space /\ \A m \in 1..(i - 1) : line[m] = Space
             last == CHOOSE i \in 1..Len(line) :
                          line[i] # Space /\ \A m \in (i + 1)..Len(line) : line[m] = Space
         IN SubSeq(line, first, last)

\* line.split()[-1] of a stripped, non-empty line
LastPart(line) ==
    LET start == CHOOSE i \in 1..Len(line) :
                     /\ \A m \in i..Len(line) : line[m] # Space
                     /\ (i = 1 \/ line[i - 1] = Space)
    IN SubSeq(line, start, Len(line))

\* _load_custom_archive on the text of the file
LoadArchiveText(exists, content) ==
    IF ~exists
    THEN {}
    ELSE LET lines == FileLines(content)
         IN {LastPart(strip(lines[i])) :
                 i \in {k \in 1..Len(lines) :
                            /\ strip(lines[k]) # << >>
                            /\ strip(lines[k])[1] # "#"}}

YoutubeWord == <<"y", "o", "u", "t", "u", "b", "e">>

\* _add_to_custom_archive: open(archive_file, "a") and one write
AppendArchiveText(content, vid) == content \o YoutubeWord \o <<Space>> \o vid \o <<Newline>>

InitArchiveFile ==
    /\ EngineInit
    /\ ClassifierIdle
    /\ ExtractIdle
    /\ JobsIdle
    /\ PoolIdle
    /\ ServiceIdle
    /\ MetaIdle
    /\ PathsIdle
    /\ HandoffIdle
    /\ archive_exists \in BOOLEAN
    /\ archive_text \in (IF archive_exists THEN ArchiveTexts ELSE {<< >>})
    /\ video_id \in ArchiveIdArgs
    /\ ids_before = {}
    /\ ids_after = {}
    /\ apc = "start"

\* archived_ids = _load_custom_archive(archive_file)
LoadArchive ==
    /\ apc = "start"
    /\ ids_before' = LoadArchiveText(archive_exists, archive_text)
    /\ apc' = "loaded"
    /\ UNCHANGED <<engineVars, classifierVars, extractVars, jobVars, poolVars, serviceVars, metaVars, pathVars, handoffVars,
                   archive_exists, archive_text, video_id, ids_after>>

\* _add_to_custom_archive(archive_file, vid)
AppendToArchive ==
    /\ apc = "loaded"
    /\ archive_text' = AppendArchiveText(archive_text, video_id)
    /\ archive_exists' = TRUE
    /\ apc' = "appended"
    /\ UNCHANGED <<engineVars, classifierVars, extractVars, jobVars, poolVars, serviceVars, metaVars, pathVars, handoffVars,
                   video_id, ids_before, ids_after>>

\* the next _load_custom_archive(archive_file)
ReloadArchive ==
    /\ apc = "appended"
    /\ ids_after' = LoadArchiveText(archive_exists, archive_text)
    /\ apc' = "reloaded"
    /\ UNCHANGED <<engineVars, classifierVars, extractVars, jobVars, poolVars, serviceVars, metaVars, pathVars, handoffVars,
                   archive_exists, archive_text, video_id, ids_before>>

NextArchiveFile ==
    \/ LoadArchive
    \/ AppendToArchive
    \/ ReloadArchive

SpecArchiveFile == InitArchiveFile /\ [][NextArchiveFile]_vars

\* C34: a load after the append of an id returns what the load before the
\* append returned, united with that id, whatever the text of archive.txt
C34_AppendRoundTrip ==
    apc = "reloaded" => ids_after = ids_before \cup {video_id}

\* C34: a load leaves out blank lines and lines that start with '#', and takes
\* from every other line its last part between white space
C34_LoadParses ==
    apc \in {"loaded", "appended", "reloaded"} =>
        \A t \in ArchiveTexts \ {<< >>} :
            (\A i \in 1..Len(t) : t[i] \notin {Space, Newline, "#"}) =>
                LoadArchiveText(TRUE, <<"#">> \o t \o <<Newline, Newline>> \o t \o <<Space>> \o video_id \o <<Newline>>)
                    = {video_id}

\* C34: archive.txt ended with a newline (or was empty or missing) and the
\* round trip held
C34_TerminatedRoundTrip ==
    (apc = "reloaded" /\ archive_text # << >>) =>
        LET before == SubSeq(archive_text, 1, Len(archive_text) - Len(YoutubeWord) - 2 - Len(video_id))
        IN (before = << >> \/ before[Len(before)] = Newline) =>
               ids_after = ids_before \cup {video_id}

\* C34: an archive.txt whose last line has no newline loses that line's id
\* when the next id is appended
C34_UnterminatedLoses ==
    /\ apc = "reloaded"
    /\ ids_before = {<<"a">>}
    /\ video_id = <<"b">>
    /\ ids_after = {<<"b">>}
    /\ archive_text = <<"a">> \o YoutubeWord \o <<Space, "b", Newline>>

----------------------------------------------------------------------------
(* The playlist metadata of one url: _get_playlist_info_title, then         *)
(* _get_playlist_entries, in a process that stays up over days or restarts  *)

MaxDays == 3

MaxVersions == 3

MaxMetaRuns == 3

\* ydl.extract_info raised
ToolFails == -1

\* _get_playlist_info: the info it returns, the cache it leaves, whether it
\* called extract_info and whether it raised
_get_playlist_info(cache, force_refresh, tool) ==
    IF ~force_refresh /\ cache # NoInfo
    THEN [info |-> cache, cache |-> cache, called |-> FALSE, raised |-> FALSE]
    ELSE IF tool = ToolFails
         THEN IF cache # NoInfo /\ ~force_refresh
              THEN [info |-> cache, cache |-> cache, called |-> TRUE, raised |-> FALSE]
              ELSE [info |-> NoInfo, cache |-> cache, called |-> TRUE, raised |-> TRUE]
         ELSE [info |-> tool, cache |-> tool, called |-> TRUE, raised |-> FALSE]

\* _is_playlist_info_fresh: playlist_info.json exists and was created today
_is_playlist_info_fresh(snap, date) == snap # NoSnapshot /\ snap.day = date

\* _save_playlist_info_with_versioning: the renamed files
RenamedSnapshots(old, snap) == IF snap # NoSnapshot THEN old \cup {snap} ELSE old

\* _save_playlist_info_with_versioning: the new playlist_info.json
SavedSnapshot(info, date) == [day |-> date, info |-> info]

\* download_playlist_with_video_and_audio is called for the url
MetaBegin ==
    /\ mpc \in {"idle", "done", "failed"}
    /\ meta_runs < MaxMetaRuns
    /\ meta_runs' = meta_runs + 1
    /\ mpc' = "begun"
    /\ extract_info_calls' = 0
    /\ fetched' = {}
    /\ entries_used' = NoInfo
    /\ freshAtStart' = _is_playlist_info_fresh(snapshot, today)
    /\ snapshotAtStart' = snapshot
    /\ UNCHANGED <<engineVars, classifierVars, extractVars, jobVars, poolVars, serviceVars,
                   archiveFileVars, pathVars, handoffVars, PLAYLIST_INFO_CACHE, snapshot, old_snapshots, today, remote>>

\* title = _get_playlist_info_title(url)
GetTitle ==
    /\ mpc = "begun"
    /\ \E tool \in {remote, ToolFails} :
           LET r == _get_playlist_info(PLAYLIST_INFO_CACHE, FALSE, tool)
           IN /\ PLAYLIST_INFO_CACHE' = r.cache
              /\ extract_info_calls' = extract_info_calls + (IF r.called THEN 1 ELSE 0)
              /\ fetched' = IF r.called /\ ~r.raised THEN fetched \cup {r.info} ELSE fetched
              /\ mpc' = IF r.raised THEN "failed" ELSE "titled"
    /\ UNCHANGED <<engineVars, classifierVars, extractVars, jobVars, poolVars, serviceVars,
                   archiveFileVars, pathVars, handoffVars, snapshot, old_snapshots, today, remote, meta_runs,
                   entries_used, freshAtStart, snapshotAtStart>>

\* entries = _get_playlist_entries(url, playlist_folder)
GetEntries ==
    /\ mpc = "titled"
    /\ IF _is_playlist_info_fresh(snapshot, today)
       THEN /\ PLAYLIST_INFO_CACHE' = snapshot.info
            /\ entries_used' = snapshot.info
            /\ mpc' = "done"
            /\ UNCHANGED <<snapshot, old_snapshots, extract_info_calls, fetched>>
       ELSE \E tool \in {remote, ToolFails} :
                LET r == _get_playlist_info(PLAYLIST_INFO_CACHE, FALSE, tool)
                IN /\ PLAYLIST_INFO_CACHE' = r.cache
                   /\ extract_info_calls' = extract_info_calls + (IF r.called THEN 1 ELSE 0)
                   /\ fetched' = IF r.called /\ ~r.raised THEN fetched \cup {r.info} ELSE fetched
                   /\ IF r.raised
                      THEN /\ mpc' = "done"
                           /\ UNCHANGED <<snapshot, old_snapshots, entries_used>>
                      ELSE /\ entries_used' = r.info
                           /\ old_snapshots' = RenamedSnapshots(old_snapshots, snapshot)
                           /\ snapshot' = SavedSnapshot(r.info, today)
                           /\ mpc' = "done"
    /\ UNCHANGED <<engineVars, classifierVars, extractVars, jobVars, poolVars, serviceVars,
                   archiveFileVars, pathVars, handoffVars, today, remote, meta_runs, freshAtStart, snapshotAtStart>>

\* the server process is stopped and started again
Restart ==
    /\ mpc # "idle" \/ PLAYLIST_INFO_CACHE # NoInfo
    /\ PLAYLIST_INFO_CACHE' = NoInfo
    /\ mpc' = "idle"
    /\ UNCHANGED <<engineVars, classifierVars, extractVars, jobVars, poolVars, serviceVars,
                   archiveFileVars, pathVars, handoffVars, snapshot, old_snapshots, today, remote, meta_runs,
                   extract_info_calls, fetched, entries_used, freshAtStart, snapshotAtStart>>

\* midnight
DayPasses ==
    /\ today < MaxDays
    /\ today' = today + 1
    /\ UNCHANGED <<engineVars, classifierVars, extractVars, jobVars, poolVars, serviceVars,
                   archiveFileVars, pathVars, handoffVars, PLAYLIST_INFO_CACHE, snapshot, old_snapshots, remote, mpc,
                   meta_runs, extract_info_calls, fetched, entries_used, freshAtStart,
                   snapshotAtStart>>

\* the playlist changes at its host
RemoteChanges ==
    /\ remote < MaxVersions
    /\ remote' = remote + 1
    /\ UNCHANGED <<engineVars, classifierVars, extractVars, jobVars, poolVars, serviceVars,
                   archiveFileVars, pathVars, handoffVars, PLAYLIST_INFO_CACHE, snapshot, old_snapshots, today, mpc,
                   meta_runs, extract_info_calls, fetched, entries_used, freshAtStart,
                   snapshotAtStart>>

NextMeta ==
    \/ MetaBegin
    \/ GetTitle
    \/ GetEntries
    \/ Restart
    \/ DayPasses
    \/ RemoteChanges

SpecMeta == Init /\ [][NextMeta]_vars

\* C35: an invocation that found a snapshot written the same day makes no call
\* of the external metadata tool, in the same process or after a restart
C35_SameDayCache ==
    (mpc \in {"titled", "done", "failed"} /\ freshAtStart) => extract_info_calls = 0

\* C35: after a restart, an invocation that found a snapshot of the same day
\* called the external tool for the title
C35_RestartCalls ==
    /\ mpc = "done"
    /\ freshAtStart
    /\ extract_info_calls = 1
    /\ entries_used = snapshotAtStart.info

\* C36: an invocation that found no snapshot written the same day uses the
\* entries of a call of the external tool it made itself, saves them as the
\* new snapshot and keeps the previous snapshot under its dated name
C36_MetadataRefresh ==
    (mpc = "done" /\ ~freshAtStart /\ entries_used # NoInfo) =>
        /\ entries_used \in fetched
        /\ snapshot.info = entries_used
        /\ snapshotAtStart # NoSnapshot => snapshotAtStart \in old_snapshots

\* C36: the new snapshot is written and the previous one kept, whatever the
\* origin of the entries
C36_SnapshotVersioned ==
    (mpc = "done" /\ ~freshAtStart /\ entries_used # NoInfo /\ _is_playlist_info_fresh(snapshot, today)) =>
        /\ snapshot.info = entries_used
        /\ snapshotAtStart # NoSnapshot => snapshotAtStart \in old_snapshots

\* C36: a process that stays up uses on the next day the info it cached the
\* day before, without any call, and saves it as the snapshot of the day
C36_StaleCacheUsed ==
    /\ mpc = "done"
    /\ ~freshAtStart
    /\ extract_info_calls = 0
    /\ entries_used = snapshotAtStart.info
    /\ entries_used # remote
    /\ snapshot = SavedSnapshot(entries_used, today)

----------------------------------------------------------------------------
(* _build_playlist_paths for two playlists with different urls              *)

\* the characters _sanitize_title removes
HostileChars == {"\\", "/", ":", "*", "?", "\"", "<", ">", "|"}

TitleChars == {"a", "b", Space, "/"}

MaxTitleLen == 3

Titles == TextsUpTo(TitleChars, MaxTitleLen)

Urls == {<<"u", "1">>, <<"u", "2">>}

RECURSIVE KeepChars(_, _)
\* "".join(c for c in title if c not in hostile)
KeepChars(title, hostile) ==
    IF title = << >>
    THEN << >>
    ELSE IF title[1] \in hostile
         THEN KeepChars(Tail(title), hostile)
         ELSE <<title[1]>> \o KeepChars(Tail(title), hostile)

DefaultTitle == <<"p", "l", "a", "y", "l", "i", "s", "t">>

_sanitize_title(title) ==
    LET safe_title == strip(KeepChars(title, HostileChars))
    IN IF safe_title # << >> THEN safe_title ELSE DefaultTitle

BASE_DOWNLOAD_PATH == <<"B">>

\* os.path.join
PathJoin(dir, name) == dir \o <<"/">> \o name

\* _build_playlist_paths: playlist_folder and archive_file
_build_playlist_paths(title) ==
    LET safe_title == _sanitize_title(title)
        playlist_folder == PathJoin(BASE_DOWNLOAD_PATH, safe_title)
    IN [safe_title |-> safe_title,
        playlist_folder |-> playlist_folder,
        archive_file |-> PathJoin(playlist_folder, <<"archive.txt">>)]

\* _get_batch_progress_file
_get_batch_progress_file(playlist_folder) == PathJoin(playlist_folder, <<"batch_progress.json">>)

\* two playlists of the database: the url is unique, the title is any text
InitPaths ==
    /\ EngineInit
    /\ ClassifierIdle
    /\ ExtractIdle
    /\ JobsIdle
    /\ PoolIdle
    /\ ServiceIdle
    /\ ArchiveFileIdle
    /\ MetaIdle
    /\ HandoffIdle
    /\ coll_url \in [Colls -> Urls]
    /\ coll_url[1] # coll_url[2]
    /\ coll_title \in [Colls -> Titles]
    /\ coll_safe = [c \in Colls |-> NoText]
    /\ coll_folder = [c \in Colls |-> NoText]
    /\ coll_archive = [c \in Colls |-> NoText]
    /\ coll_progress = [c \in Colls |-> NoText]

\* the engine is run for the playlist: title, then _build_playlist_paths
BuildPaths(c) ==
    /\ coll_safe[c] = NoText
    /\ LET paths == _build_playlist_paths(coll_title[c])
       IN /\ coll_safe' = [coll_safe EXCEPT ![c] = paths.safe_title]
          /\ coll_folder' = [coll_folder EXCEPT ![c] = paths.playlist_folder]
          /\ coll_archive' = [coll_archive EXCEPT ![c] = paths.archive_file]
          /\ coll_progress' = [coll_progress EXCEPT ![c] = _get_batch_progress_file(paths.playlist_folder)]
    /\ UNCHANGED <<engineVars, classifierVars, extractVars, jobVars, poolVars, serviceVars,
                   archiveFileVars, metaVars, handoffVars, coll_url, coll_title>>

NextPaths == \E c \in Colls : BuildPaths(c)

SpecPaths == InitPaths /\ [][NextPaths]_vars

BothBuilt == \A c \in Colls : coll_safe[c] # NoText

\* C37: two playlists with different urls never get the same folder, archive
\* or progress file, and the directory name is never empty and holds none of
\* the characters \ / : * ? " < > |
C37_OneArchivePerCollection ==
    /\ \A c \in Colls : coll_folder[c] # NoText =>
           /\ coll_safe[c] # << >>
           /\ \A i \in 1..Len(coll_safe[c]) : coll_safe[c][i] \notin HostileChars
    /\ \A c, d \in Colls :
           (coll_folder[c] # NoText /\ coll_folder[d] # NoText /\ coll_url[c] # coll_url[d]) =>
               /\ coll_folder[c] # coll_folder[d]
               /\ coll_archive[c] # coll_archive[d]
               /\ coll_progress[c] # coll_progress[d]

\* C37: the directory name is never empty and holds no hostile character
C37_SafeName ==
    \A c \in Colls : coll_folder[c] # NoText =>
        /\ coll_safe[c] # << >>
        /\ \A i \in 1..Len(coll_safe[c]) : coll_safe[c][i] \notin HostileChars
        /\ coll_folder[c] = PathJoin(BASE_DOWNLOAD_PATH, coll_safe[c])

\* C37: playlists whose names differ after _sanitize_title have their own
\* folder, archive and progress file
C37_DistinctNamesDistinctFiles ==
    \A c, d \in Colls :
        (coll_folder[c] # NoText /\ coll_folder[d] # NoText /\ coll_safe[c] # coll_safe[d]) =>
            /\ coll_folder[c] # coll_folder[d]
            /\ coll_archive[c] # coll_archive[d]
            /\ coll_progress[c] # coll_progress[d]

\* C37: two playlists with different urls and the titles "a/b" and "ab" share
\* one archive.txt
C37_SharedArchive ==
    /\ BothBuilt
    /\ coll_url[1] # coll_url[2]
    /\ coll_title[1] = <<"a", "/", "b">>
    /\ coll_title[2] = <<"a", "b">>
    /\ coll_archive[1] = coll_archive[2]
    /\ coll_progress[1] = coll_progress[2]

----------------------------------------------------------------------------
(* A job of type "both": _run_download_phase publishes every downloaded     *)
(* video on extraction_queues[job_id], _run_extraction_phase consumes it.   *)
(* The engine runs in a worker thread and reaches the queue only through    *)
(* calls it schedules on the event loop.                                    *)

\* the None that ends the queue
Sentinel == "None"

ScheduledVideo(v) == [kind |-> "video", arg |-> v]

ScheduledReturn(how) == [kind |-> "done", arg |-> how]

\* fault: the event loop runs what was scheduled in any order
AnyScheduled(ready) == 1..Len(ready)

\* the event loop runs what was scheduled on it oldest first
NextScheduled(ready) == IF ready = << >> THEN {} ELSE {1}

RemoveAt(q, i) == SubSeq(q, 1, i - 1) \o SubSeq(q, i + 1, Len(q))

notHandoffVars == <<engineVars, classifierVars, extractVars, jobVars, poolVars, serviceVars,
                    archiveFileVars, metaVars, pathVars>>

InitHandoff ==
    /\ EngineInit
    /\ ClassifierIdle
    /\ ExtractIdle
    /\ JobsIdle
    /\ PoolIdle
    /\ ServiceIdle
    /\ ArchiveFileIdle
    /\ MetaIdle
    /\ PathsIdle
    /\ ffmpeg_found \in BOOLEAN
    /\ audio_present \in SUBSET SeqToSet(HandoffVideos)
    /\ dl_next = 1
    /\ dl_state = "idle"
    /\ reported = {}
    /\ loop_ready = << >>
    /\ extraction_queue = << >>
    /\ queue_state = "absent"
    /\ put_log = << >>
    /\ dpc = "idle"
    /\ epc = "idle"
    /\ download_complete = FALSE
    /\ active_tasks = {}
    /\ finished_tasks = {}
    /\ submitted = [v \in SeqToSet(HandoffVideos) |-> 0]
    /\ skipped_existing = [v \in SeqToSet(HandoffVideos) |-> 0]

\* _run_job, job_type "both": both tasks are created and run to their first
\* await; the download phase starts the engine in its thread, the extraction
\* phase creates the queue
StartBoth ==
    /\ dpc = "idle"
    /\ dpc' = "running"
    /\ dl_state' = "running"
    /\ epc' = "start"
    /\ queue_state' = "present"
    /\ UNCHANGED <<notHandoffVars, ffmpeg_found, audio_present, dl_next, reported, loop_ready,
                   extraction_queue, put_log, download_complete, active_tasks, finished_tasks,
                   submitted, skipped_existing>>

\* the engine, in its thread, is through with the next video of the batch:
\* verified, and then GLOBAL_VIDEO_DOWNLOADED_CALLBACK(video_path), or not
WorkerDownloads ==
    /\ dl_state = "running"
    /\ dl_next <= Len(HandoffVideos)
    /\ dl_next' = dl_next + 1
    /\ \E verified \in BOOLEAN :
           IF verified
           THEN /\ reported' = reported \cup {HandoffVideos[dl_next]}
                /\ loop_ready' = Append(loop_ready, ScheduledVideo(HandoffVideos[dl_next]))
           ELSE UNCHANGED <<reported, loop_ready>>
    /\ UNCHANGED <<notHandoffVars, ffmpeg_found, audio_present, dl_state, extraction_queue,
                   queue_state, put_log, dpc, epc, download_complete, active_tasks,
                   finished_tasks, submitted, skipped_existing>>

\* the engine returns: the future of run_in_executor is resolved on the loop
WorkerReturns ==
    /\ dl_state = "running"
    /\ dl_next > Len(HandoffVideos)
    /\ dl_state' = "returned"
    /\ loop_ready' = Append(loop_ready, ScheduledReturn("ok"))
    /\ UNCHANGED <<notHandoffVars, ffmpeg_found, audio_present, dl_next, reported,
                   extraction_queue, queue_state, put_log, dpc, epc, download_complete,
                   active_tasks, finished_tasks, submitted, skipped_existing>>

\* the engine raises: the future of run_in_executor gets the exception
WorkerRaises ==
    /\ dl_state = "running"
    /\ dl_state' = "raised"
    /\ loop_ready' = Append(loop_ready, ScheduledReturn("error"))
    /\ UNCHANGED <<notHandoffVars, ffmpeg_found, audio_present, dl_next, reported,
                   extraction_queue, queue_state, put_log, dpc, epc, download_complete,
                   active_tasks, finished_tasks, submitted, skipped_existing>>

\* video_downloaded_callback(video_path) runs on the loop
VideoDownloadedCallback ==
    /\ \E i \in NextScheduled(loop_ready) :
           /\ loop_ready[i].kind = "video"
           /\ loop_ready' = RemoveAt(loop_ready, i)
           /\ IF queue_state = "present"
              THEN /\ extraction_queue' = Append(extraction_queue, loop_ready[i].arg)
                   /\ put_log' = Append(put_log, loop_ready[i].arg)
              ELSE UNCHANGED <<extraction_queue, put_log>>
    /\ UNCHANGED <<notHandoffVars, ffmpeg_found, audio_present, dl_next, dl_state, reported,
                   queue_state, dpc, epc, download_complete, active_tasks, finished_tasks,
                   submitted, skipped_existing>>

\* _run_download_phase after download_playlist: the sentinel, on return and
\* in the exception handler
DownloadPhaseEnds ==
    /\ dpc = "running"
    /\ \E i \in NextScheduled(loop_ready) :
           /\ loop_ready[i].kind = "done"
           /\ loop_ready' = RemoveAt(loop_ready, i)
           /\ dpc' = IF loop_ready[i].arg = "ok" THEN "completed" ELSE "failed"
    /\ IF queue_state = "present"
       THEN /\ extraction_queue' = Append(extraction_queue, Sentinel)
            /\ put_log' = Append(put_log, Sentinel)
       ELSE UNCHANGED <<extraction_queue, put_log>>
    /\ UNCHANGED <<notHandoffVars, ffmpeg_found, audio_present, dl_next, dl_state, reported,
                   queue_state, epc, download_complete, active_tasks, finished_tasks,
                   submitted, skipped_existing>>

\* _run_extraction_phase up to its loop: "FFmpeg not found" ends it, and the
\* finally clause deletes the queue
ExtractSetup ==
    /\ epc = "start"
    /\ IF ffmpeg_found
       THEN /\ epc' = "running"
            /\ UNCHANGED queue_state
       ELSE /\ epc' = "failed"
            /\ queue_state' = "deleted"
    /\ UNCHANGED <<notHandoffVars, ffmpeg_found, audio_present, dl_next, dl_state, reported,
                   loop_ready, extraction_queue, put_log, dpc, download_complete, active_tasks,
                   finished_tasks, submitted, skipped_existing>>

\* the loop takes an item: get_nowait(), then sentinel, skip or submit
ExtractTake ==
    /\ epc = "running"
    /\ ~download_complete
    /\ extraction_queue # << >>
    /\ extraction_queue' = Tail(extraction_queue)
    /\ LET video_path == Head(extraction_queue)
       IN IF video_path = Sentinel
          THEN /\ download_complete' = TRUE
               /\ UNCHANGED <<active_tasks, submitted, skipped_existing>>
          ELSE IF video_path \in audio_present
               THEN /\ skipped_existing' = [skipped_existing EXCEPT ![video_path] = @ + 1]
                    /\ UNCHANGED <<download_complete, active_tasks, submitted>>
               ELSE /\ submitted' = [submitted EXCEPT ![video_path] = @ + 1]
                    /\ active_tasks' = active_tasks \cup {video_path}
                    /\ UNCHANGED <<download_complete, skipped_existing>>
    /\ UNCHANGED <<notHandoffVars, ffmpeg_found, audio_present, dl_next, dl_state, reported,
                   loop_ready, queue_state, put_log, dpc, epc, finished_tasks>>

\* a thread of the extraction pool returns from _extract_single_audio
TaskFinishes(v) ==
    /\ v \in active_tasks \ finished_tasks
    /\ finished_tasks' = finished_tasks \cup {v}
    /\ UNCHANGED <<notHandoffVars, ffmpeg_found, audio_present, dl_next, dl_state, reported,
                   loop_ready, extraction_queue, queue_state, put_log, dpc, epc,
                   download_complete, active_tasks, submitted, skipped_existing>>

\* the loop processes the tasks that are done
ExtractReap ==
    /\ epc = "running"
    /\ finished_tasks # {}
    /\ active_tasks' = active_tasks \ finished_tasks
    /\ finished_tasks' = {}
    /\ UNCHANGED <<notHandoffVars, ffmpeg_found, audio_present, dl_next, dl_state, reported,
                   loop_ready, extraction_queue, queue_state, put_log, dpc, epc,
                   download_complete, submitted, skipped_existing>>

\* the loop ends: download_complete and no active task; the queue is deleted
ExtractFinish ==
    /\ epc = "running"
    /\ download_complete
    /\ active_tasks = {}
    /\ epc' = "completed"
    /\ queue_state' = "deleted"
    /\ UNCHANGED <<notHandoffVars, ffmpeg_found, audio_present, dl_next, dl_state, reported,
                   loop_ready, extraction_queue, put_log, dpc, download_complete, active_tasks,
                   finished_tasks, submitted, skipped_existing>>

NextHandoff ==
    \/ StartBoth
    \/ WorkerDownloads
    \/ WorkerReturns
    \/ WorkerRaises
    \/ VideoDownloadedCallback
    \/ DownloadPhaseEnds
    \/ ExtractSetup
    \/ ExtractTake
    \/ \E v \in SeqToSet(HandoffVideos) : TaskFinishes(v)
    \/ ExtractReap
    \/ ExtractFinish

\* the event loop and the threads keep running
SpecHandoff == InitHandoff /\ [][NextHandoff]_vars /\ WF_vars(NextHandoff)

DownloadEnded == dpc \in {"completed", "failed"}

\* every reported video was put on the queue, once, before the sentinel
EnqueuedBeforeSentinel ==
    DownloadEnded =>
        /\ \E k \in 1..Len(put_log) : put_log[k] = Sentinel
        /\ \A v \in reported :
               \E j \in 1..Len(put_log) :
                   /\ put_log[j] = v
                   /\ \A k \in 1..j : put_log[k] # Sentinel
                   /\ \A k \in 1..Len(put_log) : put_log[k] = v => k = j

\* no video is taken twice, and when the extraction phase is over every
\* reported video was either submitted or skipped for its audio
ConsumedOnce ==
    /\ \A v \in SeqToSet(HandoffVideos) :
           /\ submitted[v] + skipped_existing[v] <= 1
           /\ submitted[v] + skipped_existing[v] = 1 => v \in reported
           /\ skipped_existing[v] = 1 => v \in audio_present
    /\ epc = "completed" =>
           \A v \in reported : submitted[v] + skipped_existing[v] = 1

\* the extraction phase ends only after the sentinel and with no task left
EndsAfterSentinel ==
    epc = "completed" =>
        /\ download_complete
        /\ DownloadEnded
        /\ active_tasks = {}
        /\ extraction_queue = << >>

C38_DroppedWithoutFfmpeg ==
    /\ ~ffmpeg_found
    /\ epc = "failed"
    /\ DownloadEnded
    /\ reported # {}
    /\ put_log = << >>

====
